---- MODULE Spec2Model ----
(***************************************************************************)
(* State-machine model of repo-to-prompt's `index` and `export` commands.  *)
(*                                                                         *)
(* A file's content is a sequence of lines; a line is one of a few line    *)
(* kinds ("def f" opens a definition, "key" holds the literal              *)
(* sk-abcdefghijklmnopqrstuvwxyz12345, "mark" holds a [REDACTED_*]         *)
(* marker).  Priorities are thousandths (0.85 is 850).                     *)
(***************************************************************************)
EXTENDS Integers, Sequences, FiniteSets, Bags, TLC

\* ------------------------------------------------------------------ bounds

\* Number of export runs in one behaviour.
MaxExports == 2

\* Longest ranked list handed to apply_byte_budget on its own.
MaxFiles == 3

\* Number of index runs in one behaviour (also the range of indexed_at).
MaxRuns == 3

\* ------------------------------------------------------------ the repository

\* Candidate repository-relative paths, in ascending lexicographic order.
PathPool == <<"README.md", "src/main.py", "src/util.py", "tests/test_main.py">>

\* The paths the environment may populate in the indexed repository.
Paths == {"README.md", "src/main.py"}

\* Every path of the model, in ascending string order (String::cmp).
SortedPaths ==
    <<".github/workflows/ci.yml", "CHANGELOG.md", "CONTRIBUTING.md", "Cargo.lock",
      "Cargo.toml", "README.md", "api.py", "docs/security/test_plan.md",
      "examples/demo.py", "notes.txt", "src/api.py", "src/main.py",
      "src/schema_pb2.py", "src/util.py", "tests/main.py", "tests/test_main.py",
      "vendor/Cargo.toml", "vendor/README.md">>

\* Position of each path in ascending string order.
PathIndex ==
    [p \in {SortedPaths[i] : i \in 1..Len(SortedPaths)} |->
        CHOOSE i \in 1..Len(SortedPaths) : SortedPaths[i] = p]

PathOrd(p) == PathIndex[p]

\* File contents the environment may write.
Contents == { <<"def f", "code">>,
              <<"code", "def g", "key">> }

NoFile == [present |-> FALSE, content |-> <<>>, readable |-> FALSE]

RECURSIVE SumSeq(_)
SumSeq(s) == IF s = <<>> THEN 0 ELSE Head(s) + SumSeq(Tail(s))

SeqToSet(s) == {s[i] : i \in 1..Len(s)}

\* Bytes of one line; every line of the model is four bytes long.
LineBytes(l) == 4

SizeBytes(content) == SumSeq([i \in 1..Len(content) |-> LineBytes(content[i])])

\* estimate_tokens: bytes / 4.
EstimateTokens(content) == SizeBytes(content) \div 4

\* stable_hash(content, path, start, end): an id that is a function of exactly
\* these four inputs (collisions of the digest are not modelled).
StableHash(content, path, start, end) == <<path, start, end, content>>

\* sha256_hex(content)
Sha256Hex(content) == <<"sha256", content>>

\* ------------------------------------------------------------------ ranker

w_readme == 1000
w_contribution_doc == 980
w_main_doc == 950
w_config == 900
w_entrypoint == 850
w_api_definition == 800
w_core_source == 750
w_example == 600
w_test == 500
w_default == 500
w_generated == 200
w_lock_file == 150
w_vendored == 100

\* RankingWeights::default()
DefaultWeights ==
    [readme |-> w_readme, contribution_doc |-> w_contribution_doc,
     main_doc |-> w_main_doc, config |-> w_config, entrypoint |-> w_entrypoint,
     api_definition |-> w_api_definition, core_source |-> w_core_source,
     example |-> w_example, test |-> w_test, default |-> w_default,
     generated |-> w_generated, lock_file |-> w_lock_file, vendored |-> w_vendored]

\* The class predicates of the ranker, evaluated on the paths of the model.
\* name.starts_with("readme")
IsReadme(p) == p \in {"README.md", "vendor/README.md"}

\* A contribution prefix starts the file name or follows a "/" in the path.
IsContributionDoc(p) == p \in {"CONTRIBUTING.md", "docs/security/test_plan.md"}

\* The path or the (case-folded) name is in IMPORTANT_DOC_FILES.
IsImportantDoc(p) == p \in {"README.md", "vendor/README.md", "CONTRIBUTING.md", "CHANGELOG.md"}

IsVendored(p) == p \in {"vendor/README.md", "vendor/Cargo.toml"}

IsLockFile(p) == p \in {"Cargo.lock"}

\* is_likely_generated(path, content_sample): a protobuf stub.
IsLikelyGenerated(p) == p \in {"src/schema_pb2.py"}

IsCiWorkflow(p) == p \in {".github/workflows/ci.yml"}

\* The path or the name is in IMPORTANT_CONFIG_FILES.
IsConfigFile(p) == p \in {"Cargo.toml", "vendor/Cargo.toml"}

IsCommonEntrypoint(p) == p \in {"src/main.py", "tests/main.py"}

IsTestFile(p) == p \in {"tests/test_main.py", "tests/main.py", "docs/security/test_plan.md"}

IsExampleFile(p) == p \in {"examples/demo.py"}

IsCoreSource(p) == p \in {"src/main.py", "src/util.py", "src/api.py", "src/schema_pb2.py"}

IsApiDefinition(p) == p \in {"api.py", "src/api.py", "src/schema_pb2.py"}

\* A ranker that lets the vendored class win over the README class.
RankFileVendoredFirst(weights, entrypoints, p) ==
    IF IsVendored(p) THEN weights.vendored
    ELSE IF IsReadme(p) THEN weights.readme
    ELSE IF IsContributionDoc(p) THEN weights.contribution_doc
    ELSE IF IsImportantDoc(p) THEN weights.main_doc
    ELSE IF IsLockFile(p) THEN weights.lock_file
    ELSE IF IsLikelyGenerated(p) THEN weights.generated
    ELSE IF IsCiWorkflow(p) \/ IsConfigFile(p) THEN weights.config
    ELSE IF p \in entrypoints \/ IsCommonEntrypoint(p) THEN weights.entrypoint
    ELSE IF IsTestFile(p) THEN weights.test
    ELSE IF IsExampleFile(p) THEN weights.example
    ELSE IF IsCoreSource(p) THEN weights.core_source
    ELSE IF IsApiDefinition(p) THEN weights.api_definition
    ELSE weights.default

\* FileRanker::rank_file: the first matching class decides the priority.
\* entrypoints are the confirmed entrypoints of the manifests.
RankFileWith(weights, entrypoints, p) ==
    IF IsReadme(p) THEN weights.readme
    ELSE IF IsContributionDoc(p) THEN weights.contribution_doc
    ELSE IF IsImportantDoc(p) THEN weights.main_doc
    ELSE IF IsVendored(p) THEN weights.vendored
    ELSE IF IsLockFile(p) THEN weights.lock_file
    ELSE IF IsLikelyGenerated(p) THEN weights.generated
    ELSE IF IsCiWorkflow(p) \/ IsConfigFile(p) THEN weights.config
    ELSE IF p \in entrypoints \/ IsCommonEntrypoint(p) THEN weights.entrypoint
    ELSE IF IsTestFile(p) THEN weights.test
    ELSE IF IsExampleFile(p) THEN weights.example
    ELSE IF IsCoreSource(p) THEN weights.core_source
    ELSE IF IsApiDefinition(p) THEN weights.api_definition
    ELSE weights.default

\* rank_file under the default weights in a repository without manifests,
\* for every path.
DefaultPriority ==
    [p \in {SortedPaths[i] : i \in 1..Len(SortedPaths)} |->
        RankFileWith(DefaultWeights, {}, p)]

RankFile(p) == DefaultPriority[p]

\* The tags rank_file puts on a file.
FileTags(p) ==
    (IF IsReadme(p) THEN {"readme"} ELSE {})
    \cup (IF IsConfigFile(p) THEN {"config"} ELSE {})
    \cup (IF IsContributionDoc(p) THEN {"contribution"} ELSE {})
    \cup (IF IsCiWorkflow(p) THEN {"workflow"} ELSE {})
    \cup (IF IsLockFile(p) THEN {"lock-file"} ELSE {})

\* Comparator of rank_files: priority descending, then path ascending.
RankedBefore(p, q) ==
    \/ RankFile(p) > RankFile(q)
    \/ RankFile(p) = RankFile(q) /\ PathOrd(p) < PathOrd(q)

\* FileRanker::rank_files over the scanned set: the sorted sequence of paths.
RECURSIVE RankFiles(_)
RankFiles(S) ==
    IF S = {} THEN <<>>
    ELSE LET first == CHOOSE p \in S : \A q \in S \ {p} : RankedBefore(p, q)
         IN  <<first>> \o RankFiles(S \ {first})

\* ------------------------------------------------------------- byte budget

\* One dropped_files entry of apply_byte_budget.
BytesDropEntry(p) == [path |-> p, reason |-> "bytes_limit", priority |-> RankFile(p)]

\* The loop as it would run if the test were `total > limit`.
RECURSIVE ByteBudgetLoopStrict(_, _, _, _, _, _)
ByteBudgetLoopStrict(ranked, sizes, limit, idx, total, selected) ==
    IF idx > Len(ranked)
    THEN [selected |-> selected, total_bytes_included |-> total, dropped |-> <<>>]
    ELSE IF total > limit
    THEN [selected |-> selected, total_bytes_included |-> total,
          dropped |-> [j \in 1..(Len(ranked) - idx + 1) |->
                          BytesDropEntry(ranked[idx + j - 1])]]
    ELSE ByteBudgetLoopStrict(ranked, sizes, limit, idx + 1,
                              total + sizes[ranked[idx]], Append(selected, ranked[idx]))

\* The loop of apply_byte_budget from position idx on.  sizes maps a path to
\* its size_bytes.
RECURSIVE ByteBudgetLoop(_, _, _, _, _, _)
ByteBudgetLoop(ranked, sizes, limit, idx, total, selected) ==
    IF idx > Len(ranked)
    THEN [selected |-> selected, total_bytes_included |-> total, dropped |-> <<>>]
    ELSE IF total >= limit
    THEN [selected |-> selected, total_bytes_included |-> total,
          dropped |-> [j \in 1..(Len(ranked) - idx + 1) |->
                          BytesDropEntry(ranked[idx + j - 1])]]
    ELSE ByteBudgetLoop(ranked, sizes, limit, idx + 1, total + sizes[ranked[idx]],
                        Append(selected, ranked[idx]))

\* The loop as it would run if it went on past the first file met at the
\* limit and took every later file that still fits.
RECURSIVE ByteBudgetSkip(_, _, _, _, _, _, _)
ByteBudgetSkip(ranked, sizes, limit, idx, total, selected, dropped) ==
    IF idx > Len(ranked)
    THEN [selected |-> selected, total_bytes_included |-> total, dropped |-> dropped]
    ELSE IF total + sizes[ranked[idx]] > limit
    THEN ByteBudgetSkip(ranked, sizes, limit, idx + 1, total, selected,
                        Append(dropped, BytesDropEntry(ranked[idx])))
    ELSE ByteBudgetSkip(ranked, sizes, limit, idx + 1, total + sizes[ranked[idx]],
                        Append(selected, ranked[idx]), dropped)

ApplyByteBudgetSkipping(ranked, sizes, limit) ==
    ByteBudgetSkip(ranked, sizes, limit, 1, 0, <<>>, <<>>)

\* apply_byte_budget(ranked_files, Some(limit), stats): the accepted files, the
\* total recorded in stats.total_bytes_included, the entries pushed to
\* stats.dropped_files (files_dropped_budget grows by one per entry).
ApplyByteBudget(ranked, sizes, limit) ==
    ByteBudgetLoop(ranked, sizes, limit, 1, 0, <<>>)

\* ------------------------------------------------------------------ chunker

IsDefLine(l) == l \in {"def f", "def g"}

\* Symbol tags of a section: from its first line.
SectionSymbolTags(section) ==
    IF section # <<>> /\ IsDefLine(section[1])
    THEN {IF section[1] = "def f" THEN "def:f" ELSE "def:g"}
    ELSE {}

\* find_definition_boundaries: row 0, every later row that opens a definition,
\* and the number of lines (0-indexed rows, ascending).
BoundaryRows(lines) ==
    {0} \cup {i \in 1..(Len(lines) - 1) : IsDefLine(lines[i + 1])} \cup {Len(lines)}

RECURSIVE SortedRows(_)
SortedRows(S) ==
    IF S = {} THEN <<>>
    ELSE LET m == CHOOSE x \in S : \A y \in S : x <= y
         IN  <<m>> \o SortedRows(S \ {m})

Max(a, b) == IF a >= b THEN a ELSE b
Min(a, b) == IF a <= b THEN a ELSE b

MkChunk(path, priority, tags, lines, start_line, end_line) ==
    [id |-> StableHash(lines, path, start_line, end_line),
     path |-> path,
     start_line |-> start_line,
     end_line |-> end_line,
     content |-> lines,
     priority |-> priority,
     tags |-> tags,
     token_estimate |-> EstimateTokens(lines)]

\* LineChunker::chunk: overlapping windows of window lines, advancing by
\* max(1, window - overlap); offset rebases the line numbers.
RECURSIVE LineWindows(_, _, _, _, _, _, _, _)
LineWindows(path, priority, tags, lines, window, overlap, offset, start) ==
    IF start >= Len(lines) THEN <<>>
    ELSE LET end == Min(start + window, Len(lines))
             c == MkChunk(path, priority, tags, SubSeq(lines, start + 1, end),
                          offset + start + 1, offset + end)
         IN  IF end >= Len(lines) THEN <<c>>
             ELSE <<c>> \o LineWindows(path, priority, tags, lines, window, overlap,
                                       offset, start + Max(1, window - overlap))

LineChunker(path, priority, tags, lines, max_tokens, overlap_tokens, offset) ==
    LineWindows(path, priority, tags, lines, Max(1, max_tokens),
                overlap_tokens, offset, 0)

\* The section loop of CodeChunker::chunk over the boundary rows.
RECURSIVE ChunkSections(_, _, _, _, _, _, _)
ChunkSections(path, priority, lines, rows, k, max_tokens, overlap_tokens) ==
    IF k >= Len(rows) THEN <<>>
    ELSE LET start == rows[k]
             end == rows[k + 1]
             section == SubSeq(lines, start + 1, end)
             tags == FileTags(path) \cup SectionSymbolTags(section)
             here == IF EstimateTokens(section) <= max_tokens
                     THEN <<MkChunk(path, priority, tags, section, start + 1, end)>>
                     ELSE LineChunker(path, priority, tags, section, max_tokens,
                                      overlap_tokens, start)
         IN  here \o ChunkSections(path, priority, lines, rows, k + 1, max_tokens,
                                   overlap_tokens)

\* chunk_content(file, content, chunk_tokens, chunk_overlap)
ChunkContent(path, priority, lines, chunk_tokens, chunk_overlap) ==
    IF lines = <<>> THEN <<>>
    ELSE ChunkSections(path, priority, lines, SortedRows(BoundaryRows(lines)), 1,
                       chunk_tokens, chunk_overlap)

\* Two adjacent chunks merged into one.
MergeChunks(a, b) ==
    [id |-> StableHash(a.content \o b.content, a.path, a.start_line, b.end_line),
     path |-> a.path,
     start_line |-> a.start_line,
     end_line |-> b.end_line,
     content |-> a.content \o b.content,
     priority |-> a.priority,
     tags |-> a.tags \cup b.tags,
     token_estimate |-> a.token_estimate + b.token_estimate]

\* coalesce_small_chunks_with_max(chunks, min_tokens, max_tokens): a chunk below
\* min_tokens is merged into its same-file neighbour unless the result would
\* exceed max_tokens.
RECURSIVE CoalesceLoop(_, _, _, _)
CoalesceLoop(acc, rest, min_tokens, max_tokens) ==
    IF rest = <<>> THEN acc
    ELSE LET c == Head(rest)
         IN  IF /\ acc # <<>>
                /\ acc[Len(acc)].path = c.path
                /\ (acc[Len(acc)].token_estimate < min_tokens
                    \/ c.token_estimate < min_tokens)
                /\ acc[Len(acc)].token_estimate + c.token_estimate <= max_tokens
             THEN CoalesceLoop(SubSeq(acc, 1, Len(acc) - 1)
                                 \o <<MergeChunks(acc[Len(acc)], c)>>,
                               Tail(rest), min_tokens, max_tokens)
             ELSE CoalesceLoop(Append(acc, c), Tail(rest), min_tokens, max_tokens)

CoalesceSmallChunks(chunks, min_tokens, max_tokens) ==
    CoalesceLoop(<<>>, chunks, min_tokens, max_tokens)

\* ------------------------------------------------------------ index store

\* The index database after ensure_schema: the rows of files (keyed by path),
\* chunks, symbols, chunk_fts (a bag: the FTS table has no key) and metadata.
EmptyDb ==
    [files |-> <<>>, chunks |-> {}, symbols |-> {}, chunk_fts |-> EmptyBag,
     metadata |-> {}]

RemoveKey(f, k) == [x \in (DOMAIN f) \ {k} |-> f[x]]

\* A deletion that leaves the search rows of the path in place.
DeleteFtsNone(d, path) == d

\* DELETE FROM chunk_fts WHERE path = ?1
DeleteFts(d, path) ==
    [d EXCEPT !.chunk_fts =
        [r \in {x \in DOMAIN d.chunk_fts : x.path # path} |-> d.chunk_fts[r]]]

\* The delete as it would act without the ON DELETE CASCADE clauses.
DeleteFileRowNoCascade(d, path) ==
    [d EXCEPT !.files = RemoveKey(d.files, path)]

\* DELETE FROM files WHERE path = ?1, with the ON DELETE CASCADE clauses of
\* chunks.file_path, symbols.file_path and symbols.chunk_id.
DeleteFileRow(d, path) ==
    LET gone == {c.id : c \in {x \in d.chunks : x.file_path = path}}
    IN  [d EXCEPT !.files = RemoveKey(d.files, path),
                  !.chunks = {c \in d.chunks : c.file_path # path},
                  !.symbols = {s \in d.symbols :
                                  s.file_path # path /\ s.chunk_id \notin gone}]

\* Both statements write_index issues for a stale or a changed path.
DeletePath(d, path) == DeleteFileRow(DeleteFts(d, path), path)

RECURSIVE DeletePaths(_, _)
DeletePaths(d, S) ==
    IF S = {} THEN d
    ELSE LET p == CHOOSE x \in S : TRUE
         IN  DeletePaths(DeletePath(d, p), S \ {p})

ChunkRow(c) ==
    [id |-> c.id, file_path |-> c.path, start_line |-> c.start_line,
     end_line |-> c.end_line, priority |-> c.priority,
     token_estimate |-> c.token_estimate, tags |-> c.tags, content |-> c.content]

FtsRow(c) == [chunk_id |-> c.id, path |-> c.path, content |-> c.content]

\* The symbols rows insert_chunk derives from the def:/type:/impl: tags.
SymbolRows(c) ==
    {[symbol |-> IF t = "def:f" THEN "f" ELSE "g", kind |-> "def",
      file_path |-> c.path, chunk_id |-> c.id] : t \in c.tags \cap {"def:f", "def:g"}}

\* The constraints insert_chunk's statements can violate: the primary key of
\* chunks and the foreign key chunks.file_path -> files.path.
InsertChunkOk(d, c) ==
    /\ c.id \notin {x.id : x \in d.chunks}
    /\ c.path \in DOMAIN d.files

\* insert_chunk(tx, chunk)
InsertChunk(d, c) ==
    [d EXCEPT !.chunks = @ \cup {ChunkRow(c)},
              !.chunk_fts = @ (+) SetToBag({FtsRow(c)}),
              !.symbols = @ \cup SymbolRows(c)]

\* The loop `for chunk in &file_chunks { insert_chunk(&tx, chunk)?; }`.
RECURSIVE InsertChunks(_, _)
InsertChunks(d, chunks) ==
    IF chunks = <<>> THEN [ok |-> TRUE, db |-> d]
    ELSE IF ~InsertChunkOk(d, Head(chunks)) THEN [ok |-> FALSE, db |-> d]
    ELSE InsertChunks(InsertChunk(d, Head(chunks)), Tail(chunks))

\* The chunks write_index builds for a changed file.
BuildFileChunks(path, priority, content, opts) ==
    CoalesceSmallChunks(
        ChunkContent(path, priority, content, opts.chunk_tokens, opts.chunk_overlap),
        opts.min_chunk_tokens, opts.chunk_tokens)

\* FileInfo.extension and FileInfo.language, which the scanner derives from
\* the file name.
ExtensionOf(path) == IF path \in {"src/main.py"} THEN ".py" ELSE ".md"

LanguageOf(path) == IF ExtensionOf(path) = ".py" THEN "python" ELSE "markdown"

\* An update that rewrites the whole row, the token estimate included.
UpdateFileRowWhole(d, pf, indexed_at) ==
    IF pf.path \in DOMAIN d.files
    THEN [d EXCEPT !.files[pf.path] =
             [language |-> LanguageOf(pf.path), extension |-> ExtensionOf(pf.path),
              size_bytes |-> pf.size_bytes, priority |-> pf.priority,
              token_estimate |-> 0, file_hash |-> pf.hash, indexed_at |-> indexed_at]]
    ELSE d

\* UPDATE files SET language, extension, size_bytes, priority, indexed_at
UpdateFileMetadata(d, pf, indexed_at) ==
    IF pf.path \in DOMAIN d.files
    THEN [d EXCEPT !.files[pf.path] =
             [@ EXCEPT !.language = LanguageOf(pf.path),
                       !.extension = ExtensionOf(pf.path),
                       !.size_bytes = pf.size_bytes, !.priority = pf.priority,
                       !.indexed_at = indexed_at]]
    ELSE d

FileRow(pf, file_tokens, indexed_at) ==
    [language |-> LanguageOf(pf.path), extension |-> ExtensionOf(pf.path),
     size_bytes |-> pf.size_bytes, priority |-> pf.priority,
     token_estimate |-> file_tokens, file_hash |-> pf.hash, indexed_at |-> indexed_at]

\* INSERT INTO files (...)
InsertFileRow(d, pf, file_tokens, indexed_at) ==
    [d EXCEPT !.files = (pf.path :> FileRow(pf, file_tokens, indexed_at)) @@ @]

\* A comparison that never reuses.
WasSameNever(existing_hashes, pf) == FALSE

\* A comparison that reuses every stored path whatever its hash.
WasSameAnyHash(existing_hashes, pf) == pf.path \in DOMAIN existing_hashes

\* Whether write_index treats a prepared file as unchanged.
WasSame(existing_hashes, pf) ==
    pf.path \in DOMAIN existing_hashes /\ existing_hashes[pf.path] = pf.hash

\* The branch of write_index's loop for a changed file: delete, chunk, insert.
ReindexFile(d, pf, opts, indexed_at) ==
    LET file_chunks == BuildFileChunks(pf.path, pf.priority, pf.content, opts)
        file_tokens == SumSeq([i \in 1..Len(file_chunks) |->
                                  file_chunks[i].token_estimate])
    IN  InsertChunks(InsertFileRow(DeletePath(d, pf.path), pf, file_tokens, indexed_at),
                     file_chunks)

\* ------------------------------------------------------------------- state

VARIABLES
    repo,      \* the working tree: path -> [present, content, readable]
    db,        \* the committed index database
    tx,        \* the open transaction's view of the database
    ipc,       \* index command: "idle" | "files"
    run,       \* the locals of the index run in progress (chunk_calls counts
               \* the calls of chunk_content)
    summary,   \* the outcome of the last index run
    runs,      \* index runs started so far (the clock behind indexed_at)
    bb,        \* one call of apply_byte_budget: its arguments, then its result
    xcfg,      \* export: the repository, the merged configuration, the index
    xpc,       \* export: position in export::run
    xst,       \* export: the locals of the run in progress
    xout,      \* export: the artifacts written by the last run
    xprev,     \* export: the artifacts of the run before it
    xruns,     \* export: runs started so far
    rk,        \* one call of FileRanker::rank_file: its arguments, then its result
    ss,        \* one call of sort_chunks_for_stitch_story: arguments, then result
    lsp,       \* analyze_workspace_symbols: its position, the rust-analyzer child
    qry,       \* query: the index it reads, its arguments, its rows and output
    cli,       \* the start of export / index: arguments, config, what was touched
    dx,        \* one call of dependency_expansion_scores: arguments, then result
    rq         \* one LspConnection: its next id, the request in progress, the pipe

indexVars == <<repo, db, tx, ipc, run, summary, runs>>

budgetVars == <<bb>>

exportVars == <<xcfg, xpc, xst, xout, xprev, xruns>>

commandVars == <<indexVars, budgetVars, exportVars>>

vars == <<repo, db, tx, ipc, run, summary, runs, bb, xcfg, xpc, xst, xout, xprev, xruns,
          rk, ss, lsp, qry, cli, dx, rq>>

\* What the steps of `index` leave alone.
notIndex == <<bb, xcfg, xpc, xst, xout, xprev, xruns, rk, ss, lsp, qry, cli, dx, rq>>

\* What the steps of `export` leave alone.
notExport == <<repo, db, tx, ipc, run, summary, runs, bb, rk, ss, lsp, qry, cli, dx, rq>>

\* What a call of apply_byte_budget leaves alone.
notBudget == <<repo, db, tx, ipc, run, summary, runs, xcfg, xpc, xst, xout, xprev, xruns,
               rk, ss, lsp, qry, cli, dx, rq>>

\* The commands that a specification does not exercise stay as they start.
IndexOff ==
    /\ repo = <<>> /\ db = <<>> /\ tx = <<>> /\ ipc = "off"
    /\ run = <<>> /\ summary = <<>> /\ runs = 0

BudgetOff == bb = <<>>

ExportOff ==
    /\ xcfg = <<>> /\ xpc = "off" /\ xst = <<>> /\ xout = <<>>
    /\ xprev = <<>> /\ xruns = 0

RankOff == rk = <<>>

SortOff == ss = <<>>

LspOff == lsp = <<>>

QueryOff == qry = <<>>

CliOff == cli = <<>>

ExpandOff == dx = <<>>

RequestOff == rq = <<>>

LateOff == ExpandOff /\ RequestOff

ToolsOff == RankOff /\ SortOff /\ LspOff /\ QueryOff /\ CliOff /\ LateOff

\* IndexBuildOptions a run may be given.
BuildOptions ==
    { [chunk_tokens |-> 1, chunk_overlap |-> 0, min_chunk_tokens |-> 0],
      [chunk_tokens |-> 4, chunk_overlap |-> 1, min_chunk_tokens |-> 2] }

\* max_total_bytes a run may be given.
ByteLimits == {6, 1000}

NoRun ==
    [opts |-> [chunk_tokens |-> 0, chunk_overlap |-> 0, min_chunk_tokens |-> 0],
     selected |-> <<>>, prepared |-> <<>>, k |-> 0, existing_hashes |-> <<>>,
     stale_paths |-> {}, files_reused |-> 0, files_reindexed |-> 0,
     chunk_calls |-> 0, unreadable |-> 0, files_scanned |-> 0]

NoSummary ==
    [status |-> "none", files_indexed |-> 0, chunks_indexed |-> 0,
     files_reindexed |-> 0, files_reused |-> 0, files_removed |-> 0,
     unreadable |-> 0, dirty |-> FALSE]

InitIndex ==
    /\ repo = [p \in Paths |-> NoFile]
    /\ db = EmptyDb
    /\ tx = EmptyDb
    /\ ipc = "idle"
    /\ run = NoRun
    /\ summary = NoSummary
    /\ runs = 0
    /\ BudgetOff
    /\ ExportOff
    /\ ToolsOff

\* ------------------------------------------------------------- environment

\* The user creates or rewrites a file.
WriteFile(p, c) ==
    /\ ipc = "idle"
    /\ repo[p] # [present |-> TRUE, content |-> c, readable |-> TRUE]
    /\ repo' = [repo EXCEPT ![p] = [present |-> TRUE, content |-> c, readable |-> TRUE]]
    /\ UNCHANGED <<db, tx, ipc, run, summary, runs>>
    /\ UNCHANGED notIndex

\* The user deletes a file.
RemoveFile(p) ==
    /\ ipc = "idle"
    /\ repo[p].present
    /\ repo' = [repo EXCEPT ![p] = NoFile]
    /\ UNCHANGED <<db, tx, ipc, run, summary, runs>>
    /\ UNCHANGED notIndex

\* A file stays listed by the scanner but read_file_safe fails on it.
MakeUnreadable(p) ==
    /\ ipc = "idle"
    /\ repo[p].present /\ repo[p].readable
    /\ repo' = [repo EXCEPT ![p].readable = FALSE]
    /\ UNCHANGED <<db, tx, ipc, run, summary, runs>>
    /\ UNCHANGED notIndex

\* ------------------------------------------------------------ index command

\* A preparation that takes a file it could not read as an empty file.
RECURSIVE PrepareFilesUnread(_, _)
PrepareFilesUnread(selected, tree) ==
    IF selected = <<>> THEN <<>>
    ELSE LET p == Head(selected)
             content == IF tree[p].readable THEN tree[p].content ELSE <<>>
         IN  <<[path |-> p, content |-> content, hash |-> Sha256Hex(content),
                size_bytes |-> SizeBytes(tree[p].content),
                priority |-> RankFile(p)]>> \o PrepareFilesUnread(Tail(selected), tree)

\* The PreparedFile records of index::run: one per selected file that
\* read_file_safe could read.
RECURSIVE PrepareFiles(_, _)
PrepareFiles(selected, tree) ==
    IF selected = <<>> THEN <<>>
    ELSE LET p == Head(selected)
             rest == PrepareFiles(Tail(selected), tree)
         IN  IF tree[p].readable
             THEN <<[path |-> p, content |-> tree[p].content,
                     hash |-> Sha256Hex(tree[p].content),
                     size_bytes |-> SizeBytes(tree[p].content),
                     priority |-> RankFile(p)]>> \o rest
             ELSE rest

\* A run that removes nothing.
StalePathsNone(existing_hashes, selected) == {}

\* stale_paths of write_index: stored paths that are not among the selected files.
StalePaths(existing_hashes, selected) ==
    (DOMAIN existing_hashes) \ SeqToSet(selected)

\* index::run up to the loop of write_index: scan, rank, byte budget, read and
\* hash, open the transaction, load the stored hashes, delete the stale paths.
IndexStart(opts, limit) ==
    /\ ipc = "idle"
    /\ runs < MaxRuns
    /\ LET scanned == {p \in Paths : repo[p].present}
           sizes == [p \in Paths |-> SizeBytes(repo[p].content)]
           budget == ApplyByteBudget(RankFiles(scanned), sizes, limit)
           selected == budget.selected
           prepared == PrepareFiles(selected, repo)
           existing_hashes == [p \in DOMAIN db.files |-> db.files[p].file_hash]
           stale_paths == StalePaths(existing_hashes, selected)
       IN  /\ run' = [opts |-> opts, selected |-> selected, prepared |-> prepared,
                      k |-> 1, existing_hashes |-> existing_hashes,
                      stale_paths |-> stale_paths, files_reused |-> 0,
                      files_reindexed |-> 0, chunk_calls |-> 0,
                      unreadable |-> Len(selected) - Len(prepared),
                      files_scanned |-> Cardinality(scanned)]
           /\ tx' = DeletePaths(db, stale_paths)
    /\ ipc' = "files"
    /\ runs' = runs + 1
    /\ UNCHANGED <<repo, db, summary>>
    /\ UNCHANGED notIndex

\* A failure that keeps what the run had written so far.
RollbackKeepsWrites ==
    /\ db' = tx
    /\ ipc' = "idle"
    /\ run' = NoRun
    /\ summary' = [NoSummary EXCEPT !.status = "err", !.dirty = (tx # db)]
    /\ UNCHANGED <<repo, tx, runs>>
    /\ UNCHANGED notIndex

\* Dropping the transaction without commit: nothing of the run is kept.
\* summary.dirty records whether the run had written before it failed.
Rollback ==
    /\ tx' = db
    /\ ipc' = "idle"
    /\ run' = NoRun
    /\ summary' = [NoSummary EXCEPT !.status = "err", !.dirty = (tx # db)]
    /\ UNCHANGED <<repo, db, runs>>
    /\ UNCHANGED notIndex

\* One iteration of `for prepared_file in prepared`.
IndexFile ==
    /\ ipc = "files"
    /\ run.k <= Len(run.prepared)
    /\ UNCHANGED notIndex
    /\ LET pf == run.prepared[run.k]
       IN  IF WasSame(run.existing_hashes, pf)
           THEN /\ tx' = UpdateFileMetadata(tx, pf, runs)
                /\ run' = [run EXCEPT !.k = @ + 1, !.files_reused = @ + 1]
                /\ UNCHANGED <<repo, db, ipc, summary, runs>>
           ELSE LET r == ReindexFile(tx, pf, run.opts, runs)
                IN  IF r.ok
                    THEN /\ tx' = r.db
                         /\ run' = [run EXCEPT !.k = @ + 1, !.files_reindexed = @ + 1,
                                                !.chunk_calls = @ + 1]
                         /\ UNCHANGED <<repo, db, ipc, summary, runs>>
                    ELSE Rollback

\* Any statement or chunk_content call of the run returns an error: the `?`
\* leaves write_index and the transaction is dropped.
IndexFail ==
    /\ ipc = "files"
    /\ Rollback

\* The end of write_index: count, rewrite metadata, commit, report.
IndexCommit ==
    /\ ipc = "files"
    /\ run.k > Len(run.prepared)
    /\ LET files_indexed == Cardinality(DOMAIN tx.files)
           chunks_indexed == Cardinality(tx.chunks)
           final == [tx EXCEPT !.metadata =
                        {<<"files_scanned", run.files_scanned>>,
                         <<"files_indexed", files_indexed>>,
                         <<"chunks_indexed", chunks_indexed>>}]
       IN  /\ db' = final
           /\ tx' = final
           /\ summary' = [status |-> "ok", files_indexed |-> files_indexed,
                          chunks_indexed |-> chunks_indexed,
                          files_reindexed |-> run.files_reindexed,
                          files_reused |-> run.files_reused,
                          files_removed |-> Cardinality(run.stale_paths),
                          unreadable |-> run.unreadable, dirty |-> FALSE]
    /\ ipc' = "idle"
    /\ run' = NoRun
    /\ UNCHANGED <<repo, runs>>
    /\ UNCHANGED notIndex

NextIndex ==
    \/ \E p \in Paths, c \in Contents : WriteFile(p, c)
    \/ \E p \in Paths : RemoveFile(p)
    \/ \E p \in Paths : MakeUnreadable(p)
    \/ \E opts \in BuildOptions, limit \in ByteLimits : IndexStart(opts, limit)
    \/ IndexFile
    \/ IndexFail
    \/ IndexCommit

SpecIndex == InitIndex /\ [][NextIndex]_vars

\* ------------------------------------------------- properties of `index`

ChunksOf(d, path) == {c \in d.chunks : c.file_path = path}
FtsOf(d, path) == [r \in {x \in DOMAIN d.chunk_fts : x.path = path} |-> d.chunk_fts[r]]
SymbolsOf(d, path) == {s \in d.symbols : s.file_path = path}

\* The step on which a run commits.
CommitStep == ipc = "files" /\ ipc' = "idle" /\ summary'.status = "ok"

\* The step on which a run fails.
FailStep == ipc = "files" /\ ipc' = "idle" /\ summary'.status = "err"

\* The stored hash of a path equals the hash of its current content.
HashMatches(p) ==
    p \in DOMAIN db.files /\ db.files[p].file_hash = Sha256Hex(repo[p].content)

\* The rows a file gets from the chunker under the given options.
FreshChunks(p, opts) == BuildFileChunks(p, RankFile(p), repo[p].content, opts)

\* The run indexes exactly the stored paths, all readable, all with the stored hash.
NothingChanged ==
    /\ SeqToSet(run.selected) = DOMAIN db.files
    /\ \A p \in SeqToSet(run.selected) : repo[p].readable /\ HashMatches(p)

\* C4: a run over files whose stored hash equals the current hash (none added,
\* none removed) calls the chunker zero times, reports files_reused equal to
\* the number of files and zero reindexed, and keeps every chunk row, whatever
\* chunking options it is given.
C4_IncrementalReuse ==
    [][(CommitStep /\ NothingChanged) =>
          /\ run.chunk_calls = 0
          /\ summary'.files_reused = Len(run.selected)
          /\ summary'.files_reindexed = 0
          /\ db'.chunks = db.chunks
          /\ db'.chunk_fts = db.chunk_fts
          /\ db'.symbols = db.symbols]_vars

\* A finished run that reused both files although the options it was given
\* would chunk one of them differently from the stored rows.
C4_Witness ==
    /\ ipc = "files" /\ run.k > Len(run.prepared)
    /\ NothingChanged
    /\ Len(run.selected) = 2
    /\ run.files_reused = 2
    /\ \E p \in DOMAIN db.files :
          ChunksOf(db, p) #
              {ChunkRow(FreshChunks(p, run.opts)[i]) :
                  i \in 1..Len(FreshChunks(p, run.opts))}

C6_StaleRemoval ==
    [][CommitStep =>
          /\ DOMAIN db'.files \subseteq SeqToSet(run.selected)
          /\ DOMAIN db'.files \subseteq {p \in Paths : repo[p].present}
          /\ \A p \in (DOMAIN db.files) \ SeqToSet(run.selected) :
                /\ p \notin DOMAIN db'.files
                /\ ChunksOf(db', p) = {}
                /\ BagToSet(FtsOf(db', p)) = {}
                /\ SymbolsOf(db', p) = {}
          /\ summary'.files_removed =
                Cardinality((DOMAIN db.files) \ SeqToSet(run.selected))]_vars

\* A committed run that removed a stored path while another stays indexed.
C6_Witness ==
    /\ ipc = "idle" /\ summary.status = "ok"
    /\ summary.files_removed = 1
    /\ summary.files_indexed = 1

\* Every chunks and symbols row references an existing files row, and every
\* symbols row an existing chunks row.
Referential(d) ==
    /\ \A c \in d.chunks : c.file_path \in DOMAIN d.files
    /\ \A s \in d.symbols :
          /\ s.file_path \in DOMAIN d.files
          /\ s.chunk_id \in {c.id : c \in d.chunks}

\* C7: in the committed database and inside the open transaction alike, every
\* chunks.file_path is a files.path (and every symbols row references an
\* existing file and chunk); an insert of a chunk whose path has no files row
\* is refused.
C7_ReferentialInvariant ==
    /\ Referential(db)
    /\ Referential(tx)
    /\ \A p \in Paths \ DOMAIN tx.files, c \in Contents :
          ~InsertChunkOk(tx, MkChunk(p, RankFile(p), {}, c, 1, Len(c)))

\* A transaction that has deleted a file with chunks and symbols while rows of
\* another file remain.
C7_Witness ==
    /\ ipc = "files"
    /\ \E p \in DOMAIN db.files :
          /\ p \notin DOMAIN tx.files
          /\ ChunksOf(db, p) # {} /\ SymbolsOf(db, p) # {}
    /\ tx.chunks # {}

\* C8: the committed database changes only on the step that commits a run, and
\* then to the transaction's files, chunks, chunk_fts and symbols together with
\* the rewritten metadata; a run that fails leaves it exactly as it was.
C8_IndexAtomicity ==
    [][/\ (db' # db) =>
             /\ CommitStep
             /\ run.k > Len(run.prepared)
             /\ db'.files = tx.files
             /\ db'.chunks = tx.chunks
             /\ db'.chunk_fts = tx.chunk_fts
             /\ db'.symbols = tx.symbols
             /\ <<"files_indexed", Cardinality(DOMAIN tx.files)>> \in db'.metadata
             /\ <<"chunks_indexed", Cardinality(tx.chunks)>> \in db'.metadata
       /\ FailStep => (db' = db /\ tx' = db)
       /\ (ipc' = "files") => (db' = db)]_vars

\* A run that failed after it had written inside its transaction, over a
\* database that held rows before it.
C8_Witness ==
    /\ ipc = "idle"
    /\ summary.status = "err" /\ summary.dirty
    /\ db.chunks # {}

\* ------------------------------------------------ apply_byte_budget alone

\* File sizes and limits the byte budget is exercised with.
FileSizes == {0, 4, 8}

BudgetLimits == {0, 4, 8, 12}

BudgetPaths == {PathPool[i] : i \in 1..Min(MaxFiles, Len(PathPool))}

InitBudget ==
    /\ IndexOff
    /\ ExportOff
    /\ ToolsOff
    /\ \E S \in SUBSET BudgetPaths :
       \E sizes \in [S -> FileSizes], limit \in BudgetLimits, before \in {0, 2} :
          bb = [called |-> FALSE, ranked |-> RankFiles(S), sizes |-> sizes,
                limit |-> limit, before |-> before, selected |-> <<>>,
                dropped |-> <<>>, files_dropped_budget |-> before,
                total_bytes_included |-> 0]

\* apply_byte_budget(ranked_files, Some(limit), &mut stats)
BudgetApply ==
    /\ ~bb.called
    /\ LET r == ApplyByteBudget(bb.ranked, bb.sizes, bb.limit)
       IN  bb' = [bb EXCEPT !.called = TRUE,
                            !.selected = r.selected,
                            !.dropped = r.dropped,
                            !.files_dropped_budget = @ + Len(r.dropped),
                            !.total_bytes_included = r.total_bytes_included]
    /\ UNCHANGED notBudget

NextBudget == BudgetApply

SpecBudget == InitBudget /\ [][NextBudget]_vars

\* Bytes of the accepted files among the first n ranked files.
AcceptedBytes(n) ==
    SumSeq([j \in 1..n |-> IF bb.ranked[j] \in SeqToSet(bb.selected)
                           THEN bb.sizes[bb.ranked[j]] ELSE 0])

\* Positions of the ranked list reached with the accepted bytes at or over the limit.
OverLimit == {i \in 1..Len(bb.ranked) : AcceptedBytes(i - 1) >= bb.limit}

\* C3: after apply_byte_budget, every ranked file considered with the accepted
\* bytes already >= max_total_bytes is dropped with reason bytes_limit, as is
\* every later file; none of them is accepted; files_dropped_budget has grown
\* by exactly the number of dropped files.
C3_ByteBudgetBreak ==
    bb.called =>
        /\ \A i \in OverLimit : \A j \in i..Len(bb.ranked) :
              /\ bb.ranked[j] \notin SeqToSet(bb.selected)
              /\ \E d \in 1..Len(bb.dropped) :
                    /\ bb.dropped[d].path = bb.ranked[j]
                    /\ bb.dropped[d].reason = "bytes_limit"
        /\ \A d \in 1..Len(bb.dropped) : bb.dropped[d].reason = "bytes_limit"
        /\ Len(bb.dropped) = Cardinality(OverLimit)
        /\ bb.files_dropped_budget - bb.before = Len(bb.dropped)

\* A call that accepted a file, reached the limit exactly and dropped two files.
C3_Witness ==
    /\ bb.called
    /\ Len(bb.selected) >= 1
    /\ bb.total_bytes_included = bb.limit
    /\ Len(bb.dropped) = 2

\* ------------------------------------------------------ export: one file

\* Redactor::redact_with_language_report: the secret literal becomes a
\* [REDACTED_*] marker, every other line is kept.
Redact(content) ==
    [i \in 1..Len(content) |-> IF content[i] = "key" THEN "mark" ELSE content[i]]

\* chunk.content.contains("[REDACTED") || chunk.content.contains("_REDACTED]")
HasMarker(content) == \E i \in 1..Len(content) : content[i] = "mark"

HasSecret(content) == \E i \in 1..Len(content) : content[i] = "key"

\* Redactor::is_file_allowlisted under the default RedactionConfig, whose
\* allowlist_patterns is empty.
IsFileAllowlisted(path) == FALSE

\* The content process_export_file hands to chunk_content.
RedactedContent(path, content, redact) ==
    IF redact /\ ~IsFileAllowlisted(path) THEN Redact(content) ELSE content

\* The tagging loop of process_export_file.
TagRedacted(chunks, redact) ==
    [i \in 1..Len(chunks) |->
        IF redact /\ HasMarker(chunks[i].content)
        THEN [chunks[i] EXCEPT !.tags = @ \cup {"redacted"}]
        ELSE chunks[i]]

\* process_export_file(file, redactor, chunk_tokens, chunk_overlap, stats):
\* None for an unreadable file, else the file's chunks and whether the
\* redactor changed its content.
ProcessExportFile(path, file, redact, chunk_tokens, chunk_overlap) ==
    IF ~file.readable THEN [some |-> FALSE, chunks |-> <<>>, redacted_file |-> FALSE]
    ELSE LET redacted_content == RedactedContent(path, file.content, redact)
             file_chunks == ChunkContent(path, RankFile(path), redacted_content,
                                         chunk_tokens, chunk_overlap)
         IN  [some |-> TRUE,
              chunks |-> TagRedacted(file_chunks, redact),
              redacted_file |-> redacted_content # file.content]

ChunkTokens(chunks) == SumSeq([i \in 1..Len(chunks) |-> chunks[i].token_estimate])

\* -------------------------------------------------- export: token budget

\* The test that makes export bail on the always-include files.
AlwaysOverflowIgnoringFlag(always_tokens, max_tokens, allow_over_budget) ==
    max_tokens >= 0 /\ always_tokens > max_tokens

\* `always_tokens > max_tokens && !args.allow_over_budget` under
\* `if let Some(max_tokens)`; max_tokens = -1 stands for None.
AlwaysOverflow(always_tokens, max_tokens, allow_over_budget) ==
    max_tokens >= 0 /\ always_tokens > max_tokens /\ ~allow_over_budget

\* remaining_budget: None (-1) without max_tokens, else
\* max_tokens.saturating_sub(always_tokens).
RemainingBudget(always_tokens, max_tokens) ==
    IF max_tokens < 0 THEN -1 ELSE Max(0, max_tokens - always_tokens)

TokenDropEntry(path, file_chunks) ==
    [path |-> path, reason |-> "token_budget", priority |-> RankFile(path),
     tokens |-> ChunkTokens(file_chunks), chunks |-> Len(file_chunks)]

\* The loop over the always-include files: their chunks and token sum.
RECURSIVE AlwaysLoop(_, _, _, _)
AlwaysLoop(paths, tree, cfg, acc) ==
    IF paths = <<>> THEN acc
    ELSE LET r == ProcessExportFile(Head(paths), tree[Head(paths)], cfg.redact_secrets,
                                    cfg.chunk_tokens, cfg.chunk_overlap)
         IN  AlwaysLoop(Tail(paths), tree, cfg,
                 IF r.some
                 THEN [acc EXCEPT !.chunks = @ \o r.chunks,
                                  !.always_tokens = @ + ChunkTokens(r.chunks),
                                  !.redacted_files = @ + (IF r.redacted_file THEN 1 ELSE 0)]
                 ELSE acc)

\* A loop in which a dropped file still uses up the budget.
RECURSIVE NormalLoopCharging(_, _, _, _, _)
NormalLoopCharging(paths, tree, cfg, budget, acc) ==
    IF paths = <<>> THEN acc
    ELSE LET r == ProcessExportFile(Head(paths), tree[Head(paths)], cfg.redact_secrets,
                                    cfg.chunk_tokens, cfg.chunk_overlap)
             file_tokens == ChunkTokens(r.chunks)
         IN  IF ~r.some THEN NormalLoopCharging(Tail(paths), tree, cfg, budget, acc)
             ELSE IF budget >= 0 /\ acc.normal_tokens + file_tokens > budget
             THEN NormalLoopCharging(Tail(paths), tree, cfg, budget,
                      [acc EXCEPT
                          !.normal_tokens = @ + file_tokens,
                          !.files_dropped_budget = @ + 1,
                          !.dropped_files =
                              Append(@, TokenDropEntry(Head(paths), r.chunks))])
             ELSE NormalLoopCharging(Tail(paths), tree, cfg, budget,
                      [acc EXCEPT !.chunks = @ \o r.chunks,
                                  !.normal_tokens = @ + file_tokens])

\* The loop over the normal files against the remaining budget.
RECURSIVE NormalLoop(_, _, _, _, _)
NormalLoop(paths, tree, cfg, budget, acc) ==
    IF paths = <<>> THEN acc
    ELSE LET r == ProcessExportFile(Head(paths), tree[Head(paths)], cfg.redact_secrets,
                                    cfg.chunk_tokens, cfg.chunk_overlap)
             file_tokens == ChunkTokens(r.chunks)
             seen == [acc EXCEPT !.redacted_files =
                                     @ + (IF r.redacted_file THEN 1 ELSE 0)]
         IN  IF ~r.some THEN NormalLoop(Tail(paths), tree, cfg, budget, acc)
             ELSE IF budget >= 0 /\ acc.normal_tokens + file_tokens > budget
             THEN NormalLoop(Tail(paths), tree, cfg, budget,
                      [seen EXCEPT
                          !.files_dropped_budget = @ + 1,
                          !.dropped_files =
                              Append(@, TokenDropEntry(Head(paths), r.chunks))])
             ELSE NormalLoop(Tail(paths), tree, cfg, budget,
                      [seen EXCEPT !.chunks = @ \o r.chunks,
                                   !.normal_tokens = @ + file_tokens])

\* ------------------------------------------------- export: task reranking

\* tokenize: the tokens of one line kind.
LineTokens(l) ==
    CASE l = "def f" -> <<"def", "f">>
      [] l = "def g" -> <<"def", "g">>
      [] l = "code"  -> <<"f">>
      [] l = "key"   -> <<"sk", "secret">>
      [] OTHER       -> <<"redacted">>

RECURSIVE Tokenize(_)
Tokenize(content) ==
    IF content = <<>> THEN <<>> ELSE LineTokens(Head(content)) \o Tokenize(Tail(content))

TermFreq(tokens, term) == Cardinality({i \in 1..Len(tokens) : tokens[i] = term})

\* Integer division rounded half up (f64::round on a non-negative value).
RoundDiv(n, d) == (2 * n + d) \div (2 * d)

MaxOf(S) == CHOOSE x \in S : \A y \in S : y <= x

\* bm25::score_query_against_chunks for a one-term query, as the fraction
\* num/den of the score over idf (idf > 0 is the same for every chunk):
\* tf*(K1+1) / (tf + K1*(1 - B + B*dl/avg)) with K1 = 1.5, B = 0.75 is
\* proportional to 8*A*tf / (8*A*tf + 3*A + 9*dl*n), A = max(total_len, n).
Bm25Fraction(chunks, i, term) ==
    LET n == Len(chunks)
        total_len == SumSeq([k \in 1..n |-> Len(Tokenize(chunks[k].content))])
        A == Max(total_len, n)
        tf == TermFreq(Tokenize(chunks[i].content), term)
        dl == Len(Tokenize(chunks[i].content))
    IN  [num |-> 8 * A * tf, den |-> 8 * A * tf + 3 * A + 9 * dl * n]

\* lexical / max_score in thousandths (0 when no chunk matches).
Normalized(chunks, i, term) ==
    LET f == [k \in 1..Len(chunks) |-> Bm25Fraction(chunks, k, term)]
        best == CHOOSE k \in 1..Len(chunks) :
                   \A j \in 1..Len(chunks) : f[j].num * f[k].den <= f[k].num * f[j].den
    IN  IF f[best].num = 0 THEN 0
        ELSE (f[i].num * f[best].den * 1000) \div (f[i].den * f[best].num)

\* priority*(1 - 0.4) + normalized*0.4, rounded to thousandths.
Blend(priority, normalized) == RoundDiv(priority * 6 + normalized * 4, 10)

\* symbol_definitions: the files that define a symbol.
DefTagSymbol(t) == IF t = "def:f" THEN "f" ELSE "g"

DefinedSymbols(chunk) == {DefTagSymbol(t) : t \in chunk.tags \cap {"def:f", "def:g"}}

SymbolDefs(chunks, sym) ==
    {chunks[i].path : i \in {k \in 1..Len(chunks) : sym \in DefinedSymbols(chunks[k])}}

\* dependency_graph: the neighbours of a file (no line kind is an import).
Neighbours(chunks, path) ==
    LET refs(p) == UNION {UNION {SymbolDefs(chunks, t) : t \in SeqToSet(Tokenize(chunks[i].content))} :
                             i \in {k \in 1..Len(chunks) : chunks[k].path = p}} \ {p}
        known == {chunks[i].path : i \in 1..Len(chunks)}
    IN  refs(path) \cup {q \in known : path \in refs(q)}

\* dependency_expansion_scores in thousandths; -1 for a file without entry.
\* (At most five seeds are taken; the model never holds more than five files.)
Expansion(chunks, lexical_by_file, path) ==
    LET seeds == {p \in DOMAIN lexical_by_file : lexical_by_file[p] > 0}
        own == IF path \in seeds THEN {lexical_by_file[path]} ELSE {}
        d1 == {(lexical_by_file[q] * 6) \div 10 :
                  q \in {x \in seeds : path \in Neighbours(chunks, x)}}
        d2 == {(lexical_by_file[q] * 3) \div 10 :
                  q \in {x \in seeds : \E m \in Neighbours(chunks, x) :
                                           path \in Neighbours(chunks, m)}}
    IN  IF own \cup d1 \cup d2 = {} THEN -1 ELSE MaxOf(own \cup d1 \cup d2)

\* rerank_chunks_by_task(chunks, query, 0.4): the chunks with their new priority.
RerankChunksByTask(chunks, term) ==
    LET norm == [i \in 1..Len(chunks) |-> Normalized(chunks, i, term)]
        blended == [i \in 1..Len(chunks) |->
                       [chunks[i] EXCEPT !.priority = Blend(@, norm[i])]]
        files == {chunks[i].path : i \in 1..Len(chunks)}
        lexical_by_file == [p \in files |->
                               MaxOf({norm[i] : i \in {k \in 1..Len(chunks) :
                                                          chunks[k].path = p}})]
    IN  [i \in 1..Len(chunks) |->
            LET expanded == Expansion(chunks, lexical_by_file, chunks[i].path)
            IN  IF expanded < 0 THEN blended[i]
                ELSE [blended[i] EXCEPT !.priority =
                         RoundDiv(@ * 8 + expanded * 2, 10)]]

\* ---------------------------------------------------------- chunk ordering

LineOrd(l) ==
    CASE l = "code" -> 1 [] l = "def f" -> 2 [] l = "def g" -> 3
      [] l = "key" -> 4 [] OTHER -> 5

\* A number that orders chunk ids: ids differing in content or end line differ.
RECURSIVE ContentCode(_)
ContentCode(content) ==
    IF content = <<>> THEN 0 ELSE LineOrd(Head(content)) + 6 * ContentCode(Tail(content))

RECURSIVE LexLess(_, _)
LexLess(a, b) ==
    IF a = <<>> THEN FALSE
    ELSE Head(a) < Head(b) \/ (Head(a) = Head(b) /\ LexLess(Tail(a), Tail(b)))

\* The key of the sorts of export::run: priority descending, path, start
\* line, id.
PriorityKey(c) ==
    <<0 - c.priority, PathOrd(c.path), c.start_line, c.end_line, ContentCode(c.content)>>

\* Sort a set of <<key, chunk>> pairs by key (keys of distinct chunks differ).
RECURSIVE SortKeyed(_)
SortKeyed(S) ==
    IF S = {} THEN <<>>
    ELSE LET m == CHOOSE x \in S : \A y \in S \ {x} : LexLess(x[1], y[1])
         IN  <<m[2]>> \o SortKeyed(S \ {m})

RankTag(n) ==
    <<"reason:bm25(rank=1)", "reason:bm25(rank=2)", "reason:bm25(rank=3)",
      "reason:bm25(rank=4)", "reason:bm25(rank=5)", "reason:bm25(rank=6)",
      "reason:bm25(rank=7)", "reason:bm25(rank=8)">>[n]

\* export::run, lines 354-368: rerank, sort, tag each chunk with its rank.
TaskRerank(chunks, term) ==
    LET sorted == SortKeyed({<<PriorityKey(c), c>> :
                                c \in SeqToSet(RerankChunksByTask(chunks, term))})
    IN  [i \in 1..Len(sorted) |-> [sorted[i] EXCEPT !.tags = @ \cup {RankTag(i)}]]

\* ------------------------------------------------- export: semantic rerank

\* What Reranker::rerank may return for the top-K chunks: an error, or one
\* score per chunk (rising or falling along the BM25 order).
RerankOutcomes == {"err", "asc", "desc"}

SemanticScores(outcome, n) == [i \in 1..n |-> IF outcome = "asc" THEN i ELSE n - i]

MinOf(S) == CHOOSE x \in S : \A y \in S : x <= y

\* normalize_scores: min-max scaling into [0,1], in thousandths.
NormalizeScores(scores) ==
    LET lo == MinOf(SeqToSet(scores))
        hi == MaxOf(SeqToSet(scores))
    IN  [i \in 1..Len(scores) |->
            IF hi = lo THEN 1000 ELSE ((scores[i] - lo) * 1000) \div (hi - lo)]

SemanticTag(score) == "reason:semantic(score=" \o ToString(score) \o ")"

\* export::run, lines 370-389, when rerank returned Ok(scores): blend the
\* top-K priorities 0.6/0.4 with the normalized scores, tag, sort again.
SemanticRerank(chunks, outcome, rerank_top_k) ==
    LET top_k == Min(rerank_top_k, Len(chunks))
        normalized == NormalizeScores(SemanticScores(outcome, top_k))
        blended == [i \in 1..Len(chunks) |->
                       IF i <= top_k
                       THEN [chunks[i] EXCEPT
                                !.priority = Blend(@, normalized[i]),
                                !.tags = @ \cup {SemanticTag(normalized[i])}]
                       ELSE chunks[i]]
    IN  SortKeyed({<<PriorityKey(c), c>> : c \in SeqToSet(blended)})

\* `reranker.rerank(task_query, &chunks[..top_k])?` leaves export::run with
\* the error.
RerankAborts(cfg, outcome) == cfg.semantic_rerank /\ outcome = "err"

\* ------------------------------------------------ export: thread stitching

\* The symbols a chunk calls: a "code" line is a call of f.
CalledSymbols(chunk) ==
    IF \E i \in 1..Len(chunk.content) : chunk.content[i] = "code" THEN {"f"} ELSE {}

\* LazyChunkLoader: a chunks row of the index as a Chunk.
ChunkOfRow(r) ==
    [id |-> r.id, path |-> r.file_path, start_line |-> r.start_line,
     end_line |-> r.end_line, content |-> r.content, priority |-> r.priority,
     tags |-> r.tags, token_estimate |-> r.token_estimate]

\* The tier that pulls a chunk in around the seeds: 1 Definition, 2 Callee,
\* 3 Caller (no workspace member exists, so CrossCrate never applies); 0 none.
StitchTierOf(x, seeds) ==
    IF \E s \in seeds : x.path = s.path /\ DefinedSymbols(x) \cap CalledSymbols(s) # {}
    THEN 1
    ELSE IF \E s \in seeds : DefinedSymbols(x) \cap CalledSymbols(s) # {} THEN 2
    ELSE IF \E s \in seeds : CalledSymbols(x) \cap DefinedSymbols(s) # {} THEN 3
    ELSE 0

TierName(t) == <<"definition", "callee", "caller", "cross_crate">>[t]

\* Greedy packing of the candidates, in tier order, into the stitch budget:
\* a chunk of the pack is marked without cost, a chunk of the index is loaded
\* if its tokens still fit.
RECURSIVE StitchPack(_, _, _, _)
StitchPack(cands, pack_ids, budget, acc) ==
    IF cands = <<>> THEN acc
    ELSE LET x == Head(cands)
         IN  IF x.id \in pack_ids
             THEN StitchPack(Tail(cands), pack_ids, budget,
                             [acc EXCEPT !.stitched = @ \cup {x.id}])
             ELSE IF acc.tokens_used + x.token_estimate <= budget
             THEN StitchPack(Tail(cands), pack_ids, budget,
                             [acc EXCEPT !.stitched = @ \cup {x.id},
                                         !.lazy_chunks = Append(@, x),
                                         !.tokens_used = @ + x.token_estimate])
             ELSE StitchPack(Tail(cands), pack_ids, budget, acc)

\* stitch_thread_bundles(chunks, top_n, budget, lazy_loader, workspace_members)
StitchThreadBundles(chunks, top_n, budget, has_index, index_rows) ==
    LET seeds == {chunks[i] : i \in 1..Min(top_n, Len(chunks))}
        pack_ids == {chunks[i].id : i \in 1..Len(chunks)}
        lazy == IF has_index
                THEN {ChunkOfRow(r) : r \in {x \in index_rows : x.id \notin pack_ids}}
                ELSE {}
        pool == {c \in (SeqToSet(chunks) \ seeds) \cup lazy : StitchTierOf(c, seeds) > 0}
        cands == SortKeyed({<<<<StitchTierOf(c, seeds)>> \o PriorityKey(c), c>> : c \in pool})
    IN  [seed_ids |-> {s.id : s \in seeds}, seeds |-> seeds] @@
        StitchPack(cands, pack_ids, budget,
                   [stitched |-> {}, lazy_chunks |-> <<>>, tokens_used |-> 0])

\* A sort_group that looks at the stitched map before the seeds.
SortGroupStitchedFirst(c, seed_ids, stitched) ==
    IF c.id \in DOMAIN stitched THEN stitched[c.id]
    ELSE IF c.id \in seed_ids THEN 0
    ELSE 5

\* sort_group; stitched maps a chunk id to its tier (1 Definition, 2 Callee,
\* 3 Caller, 4 CrossCrate).
SortGroup(c, seed_ids, stitched) ==
    IF c.id \in seed_ids THEN 0
    ELSE IF c.id \in DOMAIN stitched THEN stitched[c.id]
    ELSE 5

\* sort_chunks_for_stitch_story
SortChunksForStitchStory(chunks, seed_ids, stitched) ==
    SortKeyed({<<<<SortGroup(c, seed_ids, stitched)>> \o PriorityKey(c), c>> :
                  c \in SeqToSet(chunks)})

\* (effective_tokens as f64 * stitch_budget_fraction).round(), the fraction
\* given in percent.
StitchBudget(max_tokens, always_tokens, percent) ==
    RoundDiv(Max(0, max_tokens - always_tokens) * percent, 100)

\* export::run, lines 391-430: stitch, tag, sort.
StitchStep(chunks, cfg, always_tokens) ==
    CHOOSE out \in
        { LET all == chunks \o st.lazy_chunks
              tagged == [i \in 1..Len(all) |->
                            IF all[i].id \in st.stitched
                            THEN [all[i] EXCEPT !.tags = @ \cup
                                     {"stitch:" \o TierName(StitchTierOf(all[i], st.seeds)),
                                      "reason:stitched("
                                          \o TierName(StitchTierOf(all[i], st.seeds)) \o ")"}]
                            ELSE all[i]]
              tiers == [id \in st.stitched |->
                           StitchTierOf(CHOOSE c \in SeqToSet(all) : c.id = id, st.seeds)]
          IN  [chunks |-> SortChunksForStitchStory(tagged, st.seed_ids, tiers),
               stitched_chunks |-> Cardinality(st.stitched),
               lazy_ids |-> {st.lazy_chunks[i].id : i \in 1..Len(st.lazy_chunks)}] :
          st \in {StitchThreadBundles(chunks, cfg.stitch_top_n,
                      StitchBudget(cfg.max_tokens, always_tokens, cfg.stitch_percent),
                      cfg.has_index, cfg.index_rows)} } : TRUE

\* ----------------------------------------------------------- export: state

\* The chunks table `index` leaves for a tree (every file new and readable).
RECURSIVE IndexRows(_, _, _, _)
IndexRows(paths, tree, opts, d) ==
    IF paths = <<>> THEN d.chunks
    ELSE LET p == Head(paths)
             pf == [path |-> p, content |-> tree[p].content,
                    hash |-> Sha256Hex(tree[p].content),
                    size_bytes |-> SizeBytes(tree[p].content), priority |-> RankFile(p)]
         IN  IndexRows(Tail(paths), tree, opts, ReindexFile(d, pf, opts, 1).db)

\* The trees an export is run on: every path present and readable.
ExportTrees ==
    {[p \in Paths |-> [present |-> TRUE, content |-> c[p], readable |-> TRUE]] :
        c \in [Paths -> Contents]}

\* The merged configurations an export is run with.  max_tokens = -1 is None,
\* task = "" is no task; index_opts = <<>> is a root without
\* .repo-context/index.sqlite.  Here the run has --no-semantic-rerank and the
\* default output mode.
ExportConfigs ==
    [max_total_bytes : {8, 1000},
     max_tokens : {-1, 2, 4, 5},
     allow_over_budget : BOOLEAN,
     always_include : {{}, {"README.md"}},
     task : {"", "f"},
     redact_secrets : BOOLEAN,
     no_timestamp : BOOLEAN,
     index_opts : {<<>>} \cup BuildOptions,
     stitch_percent : {50},
     stitch_top_n : {1},
     chunk_tokens : {4},
     chunk_overlap : {1},
     min_chunk_tokens : {2},
     semantic_rerank : {FALSE},
     rerank_top_k : {2},
     mode : {"both"}]

\* Wall-clock readings: the timestamp of a render and the elapsed time of a run.
Clock == {1, 2}

NoOut == [status |-> "none"]

NoExport ==
    [selected |-> <<>>, always_paths |-> <<>>, normal_paths |-> <<>>,
     chunks |-> <<>>, always_tokens |-> 0, normal_tokens |-> 0,
     files_dropped_budget |-> 0, dropped_files |-> <<>>,
     total_bytes_included |-> 0, redacted_files |-> 0, stitched_chunks |-> 0,
     lazy_ids |-> {}, error |-> "none"]

\* An export about to start on one of the trees with one of the configurations.
InitExportOver(trees, configs) ==
    /\ IndexOff
    /\ BudgetOff
    /\ ToolsOff
    /\ \E tree \in trees, c \in configs :
          xcfg = [c EXCEPT !.index_opts = <<>>] @@
                 [tree |-> tree,
                  has_index |-> c.index_opts # <<>>,
                  index_rows |-> IF c.index_opts = <<>> THEN {}
                                 ELSE IndexRows(RankFiles(DOMAIN tree), tree,
                                                c.index_opts, EmptyDb)]
    /\ xpc = "idle"
    /\ xst = NoExport
    /\ xout = NoOut
    /\ xprev = NoOut
    /\ xruns = 0

InitExport == InitExportOver(ExportTrees, ExportConfigs)

\* -------------------------------------------------------- export: the steps

\* A render that stamps its output whatever no_timestamp says.
IncludeTimestampAlways(cfg) == TRUE

\* `!args.no_timestamp`, handed to render_context_pack and write_report.
IncludeTimestamp(cfg) == ~cfg.no_timestamp

\* default_contribution_patterns()
DefaultContributionPatterns ==
    {"CONTRIBUTING*", "CODE_OF_CONDUCT*", "SECURITY*", "AUTHORS*", "MAINTAINERS*",
     ".github/PULL_REQUEST_TEMPLATE*", ".github/ISSUE_TEMPLATE/**",
     ".github/workflows/**"}

\* The paths of the model a glob matches (the whole path, case-sensitive).
GlobMatches(pattern) ==
    CASE pattern = "README.md" -> {"README.md"}
      [] pattern = "CONTRIBUTING*" -> {"CONTRIBUTING.md"}
      [] pattern = ".github/workflows/**" -> {".github/workflows/ci.yml"}
      [] OTHER -> {}

\* A mode that adds no pattern.
AlwaysIncludePatternsOfConfig(cfg) == cfg.always_include

\* merged.always_include_patterns after the contribution modes have added
\* their default patterns.
AlwaysIncludePatterns(cfg) ==
    cfg.always_include \cup
    (IF cfg.mode \in {"contribution", "pr-context"} THEN DefaultContributionPatterns
     ELSE {})

\* glob match of a path against the always-include patterns.
IsAlwaysInclude(cfg, path) ==
    \E g \in AlwaysIncludePatterns(cfg) : path \in GlobMatches(g)

\* export::run up to the always-include loop: scan, rank, byte budget,
\* partition of the selected files.
ExportStart ==
    /\ xpc = "idle"
    /\ xruns < MaxExports
    /\ LET scanned == {p \in DOMAIN xcfg.tree : xcfg.tree[p].present}
           sizes == [p \in DOMAIN xcfg.tree |-> SizeBytes(xcfg.tree[p].content)]
           budget == ApplyByteBudget(RankFiles(scanned), sizes, xcfg.max_total_bytes)
           selected == budget.selected
       IN  xst' = [NoExport EXCEPT
                      !.selected = selected,
                      !.always_paths = SelectSeq(selected,
                                           LAMBDA p : IsAlwaysInclude(xcfg, p)),
                      !.normal_paths = SelectSeq(selected,
                                           LAMBDA p : ~IsAlwaysInclude(xcfg, p)),
                      !.files_dropped_budget = Len(budget.dropped),
                      !.dropped_files = budget.dropped,
                      !.total_bytes_included = budget.total_bytes_included]
    /\ xpc' = "always"
    /\ xruns' = xruns + 1
    /\ xout' = NoOut
    /\ UNCHANGED <<xcfg, xprev>>
    /\ UNCHANGED notExport

\* The always-include loop and the overflow check after it.
ExportAlways ==
    /\ xpc = "always"
    /\ LET acc == AlwaysLoop(xst.always_paths, xcfg.tree, xcfg, xst)
       IN  IF AlwaysOverflow(acc.always_tokens, xcfg.max_tokens, xcfg.allow_over_budget)
           THEN /\ xst' = [acc EXCEPT !.error = "always_overflow"]
                /\ xpc' = "failed"
           ELSE /\ xst' = acc
                /\ xpc' = "normal"
    /\ UNCHANGED <<xcfg, xout, xprev, xruns>>
    /\ UNCHANGED notExport

\* The normal loop against the remaining budget, then the coalescing.
ExportNormal ==
    /\ xpc = "normal"
    /\ LET acc == NormalLoop(xst.normal_paths, xcfg.tree, xcfg,
                             RemainingBudget(xst.always_tokens, xcfg.max_tokens), xst)
       IN  xst' = [acc EXCEPT !.chunks =
                      CoalesceSmallChunks(@, xcfg.min_chunk_tokens, xcfg.chunk_tokens)]
    /\ xpc' = IF xcfg.task # "" THEN "task" ELSE "write"
    /\ UNCHANGED <<xcfg, xout, xprev, xruns>>
    /\ UNCHANGED notExport

\* The task branch: rerank, sort, rank tags, then (with max_tokens) stitching
\* and the stitch-story sort.
ExportTask(outcome) ==
    /\ xpc = "task"
    /\ IF RerankAborts(xcfg, outcome)
       THEN /\ xst' = [xst EXCEPT !.error = "rerank"]
            /\ xpc' = "failed"
       ELSE /\ xpc' = "write"
            /\ \E bm25 \in {TaskRerank(xst.chunks, xcfg.task)} :
               \E ranked \in {IF xcfg.semantic_rerank
                               THEN SemanticRerank(bm25, outcome, xcfg.rerank_top_k)
                               ELSE bm25} :
                  IF xcfg.max_tokens >= 0
                  THEN \E st \in {StitchStep(ranked, xcfg, xst.always_tokens)} :
                          xst' = [xst EXCEPT !.chunks = st.chunks,
                                             !.stitched_chunks = st.stitched_chunks,
                                             !.lazy_ids = st.lazy_ids]
                  ELSE xst' = [xst EXCEPT !.chunks = ranked]
    /\ UNCHANGED <<xcfg, xout, xprev, xruns>>
    /\ UNCHANGED notExport

\* ScanStats as export::run has it when it renders (processing_time_seconds
\* is still its default).
StatsOf(st) ==
    [files_dropped_budget |-> st.files_dropped_budget,
     dropped_files |-> st.dropped_files,
     total_bytes_included |-> st.total_bytes_included,
     chunks_created |-> Len(st.chunks),
     total_tokens_estimated |-> ChunkTokens(st.chunks),
     redacted_files |-> st.redacted_files,
     stitched_chunks |-> st.stitched_chunks,
     processing_time_seconds |-> 0]

\* render_context_pack
RenderContextPack(selected, chunks, stats, include_timestamp, now) ==
    [timestamp |-> IF include_timestamp THEN now ELSE 0,
     files |-> selected, chunks |-> chunks, stats |-> stats]

\* render_jsonl
RenderJsonl(chunks) == chunks

\* write_report, after `stats.processing_time_seconds = start_time.elapsed()`.
WriteReport(stats, selected, cfg, include_timestamp, now, elapsed) ==
    [timestamp |-> IF include_timestamp THEN now ELSE 0,
     stats |-> [stats EXCEPT !.processing_time_seconds = elapsed],
     files |-> selected,
     config |-> [max_tokens |-> cfg.max_tokens,
                 allow_over_budget |-> cfg.allow_over_budget,
                 max_total_bytes |-> cfg.max_total_bytes,
                 task_query |-> cfg.task,
                 redact_secrets |-> cfg.redact_secrets]]

\* The renders and writes that end export::run.
ExportWrite(now, elapsed) ==
    /\ xpc = "write"
    /\ xout' = [status |-> "ok",
                context_pack |-> RenderContextPack(xst.selected, xst.chunks, StatsOf(xst),
                                                   IncludeTimestamp(xcfg), now),
                chunks_jsonl |-> RenderJsonl(xst.chunks),
                report |-> WriteReport(StatsOf(xst), xst.selected, xcfg,
                                       IncludeTimestamp(xcfg), now, elapsed)]
    /\ xpc' = "done"
    /\ UNCHANGED <<xcfg, xst, xprev, xruns>>
    /\ UNCHANGED notExport

\* The user runs export once more on the unchanged repository with the same
\* configuration; the artifacts of the finished run are kept for comparison.
ExportAgain ==
    /\ xpc \in {"done", "failed"}
    /\ xruns < MaxExports
    /\ xprev' = xout
    /\ xpc' = "idle"
    /\ xst' = NoExport
    /\ UNCHANGED <<xcfg, xout, xruns>>
    /\ UNCHANGED notExport

NextExport ==
    \/ ExportStart
    \/ ExportAlways
    \/ ExportNormal
    \/ \E outcome \in RerankOutcomes : ExportTask(outcome)
    \/ \E now \in Clock, elapsed \in Clock : ExportWrite(now, elapsed)
    \/ ExportAgain

SpecExport == InitExport /\ [][NextExport]_vars

\* Exports with a task query and the semantic rerank left enabled.
SemanticConfigs ==
    [max_total_bytes : {8, 1000},
     max_tokens : {-1, 4},
     allow_over_budget : {FALSE},
     always_include : {{}},
     task : {"f"},
     redact_secrets : {FALSE},
     no_timestamp : {TRUE},
     index_opts : {<<>>} \cup BuildOptions,
     stitch_percent : {50},
     stitch_top_n : {1},
     chunk_tokens : {4},
     chunk_overlap : {1},
     min_chunk_tokens : {2},
     semantic_rerank : BOOLEAN,
     rerank_top_k : {1, 2},
     mode : {"both"}]

InitSemantic == InitExportOver(ExportTrees, SemanticConfigs)

\* Exports of a repository with contribution files, in each output mode.
ContributionTrees ==
    {[p \in {".github/workflows/ci.yml", "CONTRIBUTING.md", "src/main.py"} |->
         [present |-> TRUE, content |-> c[p], readable |-> TRUE]] :
        c \in [{".github/workflows/ci.yml", "CONTRIBUTING.md", "src/main.py"} -> Contents]}

ContributionConfigs ==
    [max_total_bytes : {8, 1000},
     max_tokens : {-1, 1, 10},
     allow_over_budget : BOOLEAN,
     always_include : {{}},
     task : {"", "f"},
     redact_secrets : {FALSE},
     no_timestamp : {TRUE},
     index_opts : {<<>>},
     stitch_percent : {50},
     stitch_top_n : {1},
     chunk_tokens : {4},
     chunk_overlap : {1},
     min_chunk_tokens : {2},
     semantic_rerank : {FALSE},
     rerank_top_k : {2},
     mode : {"both", "contribution", "pr-context"}]

InitContribution == InitExportOver(ContributionTrees, ContributionConfigs)

SpecContribution == InitContribution /\ [][NextExport]_vars

SpecSemantic == InitSemantic /\ [][NextExport]_vars

\* ------------------------------------------------ properties of `export`

\* The chunks a finished export emitted (chunks.jsonl and the context pack
\* carry the same sequence).
Emitted == SeqToSet(xout.chunks_jsonl) \cup SeqToSet(xout.context_pack.chunks)

\* C1: in a finished export with max_tokens set and allow_over_budget not
\* passed, the token estimates of the emitted chunks sum to at most max_tokens.
C1_TokenBudgetSound ==
    (xpc = "done" /\ xcfg.max_tokens >= 0 /\ ~xcfg.allow_over_budget) =>
        ChunkTokens(xout.chunks_jsonl) <= xcfg.max_tokens

\* The token estimates of the files that match the always-include patterns
\* among the selected files.
AlwaysSum ==
    SumSeq([i \in 1..Len(xst.always_paths) |->
               ChunkTokens(ProcessExportFile(xst.always_paths[i],
                               xcfg.tree[xst.always_paths[i]], xcfg.redact_secrets,
                               xcfg.chunk_tokens, xcfg.chunk_overlap).chunks)])

\* C2: once the always-include files are processed, the export has failed on
\* them exactly when max_tokens is set, their summed token estimate exceeds it
\* and allow_over_budget was not passed; with allow_over_budget it goes on.
C2_AlwaysOverflowFatal ==
    (xpc \in {"normal", "task", "write", "done", "failed"}) =>
        ((xpc = "failed" /\ xst.error = "always_overflow")
            <=> (xcfg.max_tokens >= 0 /\ AlwaysSum > xcfg.max_tokens
                    /\ ~xcfg.allow_over_budget))

\* An export that failed on its always-include files.
C2_Witness ==
    /\ xpc = "failed" /\ xst.error = "always_overflow"
    /\ xcfg.max_tokens >= 0 /\ AlwaysSum > xcfg.max_tokens
    /\ ~xcfg.allow_over_budget

\* The source lines a chunk covers hold the secret literal.
CoversSecret(c) ==
    \E i \in c.start_line..c.end_line :
        i <= Len(xcfg.tree[c.path].content) /\ xcfg.tree[c.path].content[i] = "key"

\* C9: in a finished export with redaction enabled, no emitted chunk holds
\* the secret literal, and every emitted chunk over source lines that hold it
\* has a redaction marker and the tag redacted; chunks stitched in from the
\* index included.
C9_RedactionCoverage ==
    (xpc = "done" /\ xcfg.redact_secrets) =>
        \A c \in Emitted :
            /\ ~HasSecret(c.content)
            /\ CoversSecret(c) => (HasMarker(c.content) /\ "redacted" \in c.tags)

ReportSansTime(r) == [r EXCEPT !.stats.processing_time_seconds = 0]

TokenDropped(st) ==
    {st.dropped_files[i].path :
        i \in {j \in 1..Len(st.dropped_files) : st.dropped_files[j].reason = "token_budget"}}

\* C20: in an export with a task, a file is dropped for the token budget only
\* once the BM25 rerank, the dependency expansion, the semantic rerank and the
\* thread stitching of that export have run.
C20_TokenBudgetAfterRerank ==
    [][(xcfg.task # "" /\ xpc # "idle" /\ xpc' # "idle"
        /\ TokenDropped(xst') # TokenDropped(xst))
          => xpc \in {"write", "done"}]_vars

\* ------------------------------------------ properties of `index`: reuse

\* The step of write_index that reuses the file at run.k.
ReuseStep == ipc = "files" /\ run'.files_reused = run.files_reused + 1

\* The columns of a files row that a reuse may not touch.
KeptColumns(row) == [token_estimate |-> row.token_estimate, file_hash |-> row.file_hash]

\* C18: for a file whose stored hash equals the current hash, an index run
\* changes only language, extension, size_bytes, priority and indexed_at of
\* its files row: token_estimate, file_hash and its chunks, symbols and
\* chunk_fts rows stay as they were, in the step that reuses it and in the
\* database the run commits.
C18_ReuseTouchesOnlyMetadata ==
    [][/\ ReuseStep =>
             LET p == run.prepared[run.k].path
             IN  /\ DOMAIN tx'.files = DOMAIN tx.files
                 /\ KeptColumns(tx'.files[p]) = KeptColumns(tx.files[p])
                 /\ tx'.files[p].indexed_at = runs
                 /\ \A q \in DOMAIN tx.files \ {p} : tx'.files[q] = tx.files[q]
                 /\ tx'.chunks = tx.chunks /\ tx'.chunk_fts = tx.chunk_fts
                 /\ tx'.symbols = tx.symbols
       /\ CommitStep =>
             \A i \in 1..Len(run.prepared) :
                LET p == run.prepared[i].path
                IN  HashMatches(p) =>
                       /\ KeptColumns(db'.files[p]) = KeptColumns(db.files[p])
                       /\ ChunksOf(db', p) = ChunksOf(db, p)
                       /\ FtsOf(db', p) = FtsOf(db, p)
                       /\ SymbolsOf(db', p) = SymbolsOf(db, p)]_vars

\* A committed database in which a file was reused by a later run: its row
\* carries that run's indexed_at and the token estimate of its chunks.
C18_Witness ==
    /\ ipc = "idle" /\ summary # NoSummary /\ summary.files_reused > 0
    /\ \E p \in DOMAIN db.files :
          /\ db.files[p].indexed_at = runs /\ runs > 1
          /\ db.files[p].token_estimate > 0
          /\ ChunksOf(db, p) # {}

\* ------------------------------------------ properties of the semantic rerank

\* C11: when a task query is given, the semantic rerank is enabled and the
\* reranker returns an error, export does not abort: no run ends failed on
\* the reranker's error.
C11_SemanticFailureNonFatal == ~(xpc = "failed" /\ xst.error = "rerank")

\* ------------------------------------------------------- ranker: one file

\* What every step outside export, index and the byte budget leaves alone.
notRank == <<commandVars, ss, lsp, qry, cli, dx, rq>>

\* Weights a configuration may give: the defaults, or one distinct weight per
\* class that grows along the resolution order.
WeightTables ==
    {DefaultWeights,
     [readme |-> 10, contribution_doc |-> 20, main_doc |-> 30, vendored |-> 40,
      lock_file |-> 50, generated |-> 60, config |-> 70, entrypoint |-> 80,
      test |-> 90, example |-> 100, core_source |-> 110, api_definition |-> 120,
      default |-> 130]}

\* Confirmed entrypoints the manifests of a repository may yield.
ManifestEntrypoints == {{}, {"src/util.py"}, {"examples/demo.py"}}

InitRank ==
    /\ IndexOff /\ BudgetOff /\ ExportOff
    /\ SortOff /\ LspOff /\ QueryOff /\ CliOff /\ LateOff
    /\ \E p \in SeqToSet(SortedPaths), w \in WeightTables, e \in ManifestEntrypoints :
          rk = [called |-> FALSE, path |-> p, weights |-> w, entrypoints |-> e,
                priority |-> 0, tags |-> {}]

\* ranker.rank_file(&mut file)
RankApply ==
    /\ ~rk.called
    /\ rk' = [rk EXCEPT
                 !.called = TRUE,
                 !.priority = RankFileWith(rk.weights, rk.entrypoints, rk.path),
                 !.tags = FileTags(rk.path) \cup
                          (IF rk.path \in rk.entrypoints THEN {"entrypoint"} ELSE {})]
    /\ UNCHANGED notRank

NextRank == RankApply

SpecRank == InitRank /\ [][NextRank]_vars

\* The classes in the resolution order of the ranker.
ClassOrder ==
    <<"readme", "contribution_doc", "main_doc", "vendored", "lock_file", "generated",
      "config", "entrypoint", "test", "example", "core_source", "api_definition",
      "default">>

\* Membership of the ranked file in a class.
InClass(class) ==
    LET p == rk.path
    IN  CASE class = "readme" -> IsReadme(p)
          [] class = "contribution_doc" -> IsContributionDoc(p)
          [] class = "main_doc" -> IsImportantDoc(p)
          [] class = "vendored" -> IsVendored(p)
          [] class = "lock_file" -> IsLockFile(p)
          [] class = "generated" -> IsLikelyGenerated(p)
          [] class = "config" -> IsCiWorkflow(p) \/ IsConfigFile(p)
          [] class = "entrypoint" -> p \in rk.entrypoints \/ IsCommonEntrypoint(p)
          [] class = "test" -> IsTestFile(p)
          [] class = "example" -> IsExampleFile(p)
          [] class = "core_source" -> IsCoreSource(p)
          [] class = "api_definition" -> IsApiDefinition(p)
          [] OTHER -> TRUE

FirstClass ==
    ClassOrder[CHOOSE i \in 1..Len(ClassOrder) :
                  InClass(ClassOrder[i]) /\ \A j \in 1..(i - 1) : ~InClass(ClassOrder[j])]

\* C16: rank_file gives a file the weight of the first class it matches in
\* the order README, contribution doc, important doc, vendored, lock file,
\* likely-generated, CI workflow or config, entrypoint, test, example, core
\* source, API-definition name, default, whatever later classes it is in; a
\* README under vendor/ gets the README weight, and under the default weights
\* a CONTRIBUTING file outranks every config file.
C16_FirstMatchWins ==
    /\ rk.called => rk.priority = rk.weights[FirstClass]
    /\ rk.called /\ rk.path = "vendor/README.md" => rk.priority = rk.weights.readme
    /\ \A c \in {q \in SeqToSet(SortedPaths) : IsConfigFile(q) \/ IsCiWorkflow(q)} :
          RankFile("CONTRIBUTING.md") > RankFile(c)

\* A ranked README under vendor/, with weights that tell the two classes apart.
C16_Witness ==
    /\ rk.called /\ rk.path = "vendor/README.md"
    /\ rk.weights.readme # rk.weights.vendored
    /\ rk.priority = rk.weights.readme

\* -------------------------------------------- properties of contribution mode

\* The files of the repository that match a default contribution pattern.
ContributionFiles(files) ==
    {f \in files : \E g \in DefaultContributionPatterns : f \in GlobMatches(g)}

ContributionMode == xcfg.mode \in {"contribution", "pr-context"}

MaxSortLen == 3

notSort == <<commandVars, rk, lsp, qry, cli, dx, rq>>

\* Chunks a call may be given: equal and different priorities, paths, start
\* lines and ids.
SortPool ==
    {MkChunk("README.md", 900, {}, <<"code">>, 1, 1),
     MkChunk("README.md", 900, {}, <<"code", "def g">>, 1, 2),
     MkChunk("README.md", 900, {}, <<"def g">>, 2, 2),
     MkChunk("src/main.py", 900, {}, <<"def f">>, 1, 1),
     MkChunk("src/main.py", 950, {}, <<"code">>, 2, 2)}

\* The sequences without repetition of n members of S.
RECURSIVE Arrangements(_, _)
Arrangements(S, n) ==
    IF n = 0 THEN {<<>>}
    ELSE {<<x>> \o t : x \in S, t \in Arrangements(S, n - 1)} \cap
         {q \in Seq(S) : \A i, j \in 1..Len(q) : i # j => q[i] # q[j]}

InitSort ==
    /\ IndexOff /\ BudgetOff /\ ExportOff
    /\ RankOff /\ LspOff /\ QueryOff /\ CliOff /\ LateOff
    /\ \E chunks \in Arrangements(SortPool, MaxSortLen) :
       \E seeds \in {X \in SUBSET SeqToSet(chunks) : Cardinality(X) <= 1} :
       \E S \in {X \in SUBSET SeqToSet(chunks) : Cardinality(X) <= 2} :
       \E tier \in [{c.id : c \in S} -> 1..4] :
          ss = [called |-> FALSE, chunks |-> chunks,
                seed_ids |-> {c.id : c \in seeds}, stitched |-> tier]

\* sort_chunks_for_stitch_story(&mut chunks, &seed_ids, &stitched)
SortApply ==
    /\ ~ss.called
    /\ ss' = [ss EXCEPT !.called = TRUE,
                        !.chunks = SortChunksForStitchStory(@, ss.seed_ids, ss.stitched)]
    /\ UNCHANGED notSort

NextSort == SortApply

SpecSort == InitSort /\ [][NextSort]_vars

\* The group the claim gives a chunk.
StoryGroup(c) ==
    IF c.id \in ss.seed_ids THEN 0
    ELSE IF c.id \notin DOMAIN ss.stitched THEN 5
    ELSE ss.stitched[c.id]

\* a may stand before b: group, then priority descending, then path, start
\* line and id ascending.
StoryBefore(a, b) ==
    \/ StoryGroup(a) < StoryGroup(b)
    \/ /\ StoryGroup(a) = StoryGroup(b)
       /\ \/ a.priority > b.priority
          \/ /\ a.priority = b.priority
             /\ \/ PathOrd(a.path) < PathOrd(b.path)
                \/ /\ a.path = b.path
                   /\ \/ a.start_line < b.start_line
                      \/ /\ a.start_line = b.start_line
                         /\ LexLess(<<a.end_line, ContentCode(a.content)>>,
                                    <<b.end_line, ContentCode(b.content)>>)

\* C14: after sort_chunks_for_stitch_story the chunks stand ordered by group
\* (seed 0, Definition 1, Callee 2, Caller 3, CrossCrate 4, neither 5, a chunk
\* that is seed and stitched counting as seed) and within a group by priority
\* descending, then path, start line and id ascending.
C14_StitchStoryOrder ==
    ss.called =>
        \A i, j \in 1..Len(ss.chunks) : i < j => StoryBefore(ss.chunks[i], ss.chunks[j])

\* A sorted call that put a chunk that is both seed and stitched before a
\* Definition chunk of higher priority, and ordered a group by start line.
C14_Witness ==
    /\ ss.called
    /\ ss.chunks[1].id \in ss.seed_ids /\ ss.chunks[1].id \in DOMAIN ss.stitched
    /\ ss.stitched[ss.chunks[1].id] = 3
    /\ StoryGroup(ss.chunks[2]) = 1 /\ ss.chunks[2].priority > ss.chunks[1].priority
    /\ StoryGroup(ss.chunks[3]) = 5

\* ------------------------------------------------ `query`: the lexical stage

\* What the steps of `query` and of the rust-analyzer client leave alone.
notQuery == <<commandVars, rk, ss, cli, dx, rq>>

\* The chunks rows of the index the query reads, with the priorities `index`
\* gives them under the default weights; content stands for its tokens, and
\* symbols for the symbols rows that point at the chunk.
QueryChunks ==
    { [id |-> "a1", path |-> "src/auth.rs", start_line |-> 1, end_line |-> 8,
       priority |-> w_core_source, content |-> {"login"}, symbols |-> {"login"}],
      [id |-> "a2", path |-> "src/auth.rs", start_line |-> 9, end_line |-> 12,
       priority |-> w_core_source, content |-> {"logout"}, symbols |-> {"logout"}],
      [id |-> "m1", path |-> "src/main.rs", start_line |-> 1, end_line |-> 5,
       priority |-> w_entrypoint, content |-> {"main", "login"}, symbols |-> {"main"}],
      [id |-> "t1", path |-> "tests/auth_test.rs", start_line |-> 1, end_line |-> 4,
       priority |-> w_test, content |-> {"login", "assert"}, symbols |-> {}] }

\* The paths of the index in ascending byte order.
QueryPaths == <<"src/auth.rs", "src/main.rs", "tests/auth_test.rs">>

QueryPathOrd(p) == CHOOSE i \in 1..Len(QueryPaths) : QueryPaths[i] = p

\* The words of the --task texts a caller may pass.
Tasks == { <<>>, <<"a">>, <<"login">>, <<"logout">>, <<"login", "main">> }

\* tokenize: the words of at least two characters.
QueryTokenize(words) == SelectSeq(words, LAMBDA w : Len(w) >= 2)

\* bm25(chunk_fts) of the matching rows, in thousandths; SQLite gives the best
\* match the smallest value.
Bm25Ranks == {-3000, -1000, 0}

\* bm25_to_score, in thousandths.
Bm25ToScore(rank) ==
    LET positive == IF rank < 0 THEN 0 - rank ELSE rank
    IN  Min(Max((1000 * 1000) \div (1000 + positive), 0), 1000)

SearchRow(c, score) ==
    [chunk_id |-> c.id, path |-> c.path, start_line |-> c.start_line,
     end_line |-> c.end_line, score |-> score]

\* WHERE chunk_fts MATCH ?1 ORDER BY rank LIMIT ?2 (the tokens joined with
\* blanks: every token must occur).
FtsRows(tokens, ranks, search_limit) ==
    LET matching == {c \in QueryChunks : \A i \in 1..Len(tokens) : tokens[i] \in c.content}
        Before(d, c) == \/ ranks[d.id] < ranks[c.id]
                        \/ /\ ranks[d.id] = ranks[c.id]
                           /\ \/ QueryPathOrd(d.path) < QueryPathOrd(c.path)
                              \/ d.path = c.path /\ d.start_line < c.start_line
    IN  {c \in matching : Cardinality({d \in matching : Before(d, c)}) < search_limit}

\* SELECT DISTINCT chunk_id FROM symbols WHERE symbol = ?1, over the tokens.
SymbolHits(tokens) ==
    {c.id : c \in {x \in QueryChunks : \E i \in 1..Len(tokens) : tokens[i] \in x.symbols}}

\* The boost of a scored chunk that a symbol row points at, without its cap.
SymbolBoostUncapped(score) == score + 250

\* existing.score = (existing.score + 0.25).min(1.0)
SymbolBoost(score) == Min(score + 250, 1000)

ChunkById(id) == CHOOSE c \in QueryChunks : c.id = id

\* The map `scored` after the FTS rows and the symbol hits.
LexicalScored(tokens, ranks, limit) ==
    LET fts == FtsRows(tokens, ranks, Max(limit, 1) * 5)
        fts_ids == {c.id : c \in fts}
        hits == SymbolHits(tokens)
    IN  [id \in fts_ids \cup hits |->
            IF id \in fts_ids
            THEN SearchRow(ChunkById(id),
                           IF id \in hits THEN SymbolBoost(Bm25ToScore(ranks[id]))
                           ELSE Bm25ToScore(ranks[id]))
            ELSE SearchRow(ChunkById(id), 500)]

\* The comparator of rows.sort_by: score descending, path, start line.
RowBefore(a, b) ==
    \/ a.score > b.score
    \/ a.score = b.score /\ QueryPathOrd(a.path) < QueryPathOrd(b.path)
    \/ a.score = b.score /\ a.path = b.path /\ a.start_line <= b.start_line

RECURSIVE SortRows(_)
SortRows(S) ==
    IF S = {} THEN <<>>
    ELSE LET first == CHOOSE a \in S : \A b \in S : RowBefore(a, b)
         IN  <<first>> \o SortRows(S \ {first})

\* Vec::truncate
Truncate(seq, n) == SubSeq(seq, 1, Min(n, Len(seq)))

\* rows.sort_by(..); rows.truncate(args.limit.max(1))
OutputRows(scored, limit) ==
    Truncate(SortRows({scored[id] : id \in DOMAIN scored}), Max(limit, 1))

\* ------------------------------------------------ the rust-analyzer client

\* WorkspaceSymbols the server may report, in the order of the BTreeSet.
LspSymbols == << [name |-> "login", path |-> "src/auth.rs"],
                 [name |-> "main", path |-> "src/main.rs"] >>

\* The answers to workspace/symbol: the subsequences of LspSymbols.
SymbolAnswers == {SelectSeq(LspSymbols, LAMBDA x : x.name \in N) : N \in SUBSET {"login", "main"}}

\* The .rs paths under the root that one textDocument/references answer names.
ReferenceAnswers == { {}, {"src/main.rs"}, {"tests/auth_test.rs"}, {"src/lib.rs"} }

\* What a request may meet: the result, an error response, the end of the
\* child's output, a message read_message cannot parse, or a write that fails.
Replies == {"result", "error", "eof", "garbled", "broken_pipe"}

\* The client before analyze_workspace_symbols is called.
LspIdle ==
    [pc |-> "idle", child |-> "none", spawned |-> FALSE, killed |-> FALSE, next_id |-> 1,
     symbols |-> <<>>, k |-> 1, reference_paths |-> {}, result |-> "none",
     failed_at |-> "none"]

\* A drop that neither kills the child nor waits for it.
ForgetConnection(l) == l

\* impl Drop for LspConnection: child.kill(), child.wait().
DropConnection(l) == [l EXCEPT !.killed = TRUE, !.child = "reaped"]

\* The return of analyze_workspace_symbols: `conn` goes out of scope when it
\* was bound.
AnalyzeReturn(l, result) ==
    LET out == [l EXCEPT !.pc = "returned", !.result = result,
                         !.failed_at = IF result = "err" THEN l.pc ELSE "none"]
    IN  IF l.spawned THEN DropConnection(out) ELSE out

\* if !is_available() { bail }
LspIsAvailable(ok) ==
    /\ qry.pc = "lsp" /\ lsp.pc = "is_available"
    /\ lsp' = IF ok THEN [lsp EXCEPT !.pc = "spawn"] ELSE AnalyzeReturn(lsp, "err")
    /\ UNCHANGED <<qry, notQuery>>

\* LspConnection::spawn: with piped stdin and stdout both handles are there.
LspSpawn(ok) ==
    /\ qry.pc = "lsp" /\ lsp.pc = "spawn"
    /\ lsp' = IF ok THEN [lsp EXCEPT !.pc = "file_uri", !.child = "running", !.spawned = TRUE]
              ELSE AnalyzeReturn(lsp, "err")
    /\ UNCHANGED <<qry, notQuery>>

\* file_uri(root)?
LspFileUri(ok) ==
    /\ qry.pc = "lsp" /\ lsp.pc = "file_uri"
    /\ lsp' = IF ok THEN [lsp EXCEPT !.pc = "initialize"] ELSE AnalyzeReturn(lsp, "err")
    /\ UNCHANGED <<qry, notQuery>>

\* The child ends on its own while the client talks to it.
ChildExits ==
    /\ qry.pc = "lsp" /\ lsp.child = "running"
    /\ lsp' = [lsp EXCEPT !.child = "exited"]
    /\ UNCHANGED <<qry, notQuery>>

\* conn.request("initialize", init)?
LspInitialize(reply) ==
    /\ qry.pc = "lsp" /\ lsp.pc = "initialize"
    /\ lsp' = IF reply = "result"
              THEN [lsp EXCEPT !.pc = "initialized", !.next_id = @ + 1]
              ELSE AnalyzeReturn([lsp EXCEPT !.next_id = @ + 1], "err")
    /\ UNCHANGED <<qry, notQuery>>

\* conn.notify("initialized", ..)?
LspInitialized(ok) ==
    /\ qry.pc = "lsp" /\ lsp.pc = "initialized"
    /\ lsp' = IF ok THEN [lsp EXCEPT !.pc = "workspace/symbol"] ELSE AnalyzeReturn(lsp, "err")
    /\ UNCHANGED <<qry, notQuery>>

\* conn.request("workspace/symbol", ..)? and the symbols kept from the answer.
LspWorkspaceSymbol(reply, answer) ==
    /\ qry.pc = "lsp" /\ lsp.pc = "workspace/symbol"
    /\ lsp' = IF reply = "result"
              THEN [lsp EXCEPT !.pc = "textDocument/references", !.next_id = @ + 1,
                               !.symbols = Truncate(answer, Max(qry.limit, 1) * 3)]
              ELSE AnalyzeReturn([lsp EXCEPT !.next_id = @ + 1], "err")
    /\ UNCHANGED <<qry, notQuery>>

\* reference_paths: one textDocument/references request for a symbol.
LspReferences(reply, answer) ==
    /\ qry.pc = "lsp" /\ lsp.pc = "textDocument/references"
    /\ lsp.k <= Min(Len(lsp.symbols), Max(Max(qry.limit, 1) * 4, 1))
    /\ lsp' = IF reply = "result"
              THEN [lsp EXCEPT !.k = @ + 1, !.next_id = @ + 1,
                               !.reference_paths = @ \cup answer]
              ELSE AnalyzeReturn([lsp EXCEPT !.next_id = @ + 1], "err")
    /\ UNCHANGED <<qry, notQuery>>

\* let _ = conn.request("shutdown"); let _ = conn.notify("exit"); Ok(..)
LspShutdown ==
    /\ qry.pc = "lsp" /\ lsp.pc = "textDocument/references"
    /\ lsp.k > Min(Len(lsp.symbols), Max(Max(qry.limit, 1) * 4, 1))
    /\ lsp' = AnalyzeReturn([lsp EXCEPT !.next_id = @ + 1], "ok")
    /\ UNCHANGED <<qry, notQuery>>

\* ------------------------------------------------ `query`: LSP boosts, output

\* file_path LIKE 'tests/%' OR '%/tests/%' OR '%_test.rs' OR 'test/%'
IsTestPath(path) == path \in {"tests/auth_test.rs"}

\* The file stem of a symbol's path.
Stem(path) ==
    IF path = "src/auth.rs" THEN "auth"
    ELSE IF path = "src/main.rs" THEN "main"
    ELSE IF path = "tests/auth_test.rs" THEN "auth_test" ELSE "lib"

\* symbol_query_terms: the tokens of the names and of the file stems.
SymbolQueryTerms(symbols) ==
    UNION {SeqToSet(QueryTokenize(<<symbols[i].name, Stem(symbols[i].path)>>)) :
             i \in 1..Len(symbols)}

\* fetch_top_chunk_for_path: ORDER BY priority DESC, start_line ASC LIMIT 1.
FetchTopChunkForPath(path) ==
    LET rows == {c \in QueryChunks : c.path = path}
        top == CHOOSE c \in rows : \A d \in rows :
                  \/ c.priority > d.priority
                  \/ c.priority = d.priority /\ c.start_line <= d.start_line
    IN  IF rows = {} THEN {} ELSE {SearchRow(top, Max(550, (top.priority * 8) \div 10))}

\* related_test_chunks: the test chunks that share a token with the terms.
RelatedTestChunks(terms, limit) ==
    IF terms = {} THEN <<>>
    ELSE Truncate(SortRows({SearchRow(c, Max(580, (c.priority * 9) \div 10)) :
                              c \in {x \in QueryChunks :
                                       IsTestPath(x.path) /\ terms \cap x.content # {}}}),
                  limit)

\* The boost of a row on a symbol path or on a reference path.
PathBoost(row, symbol_paths, reference_paths) ==
    IF row.path \in symbol_paths THEN Min(row.score + 200, 1000)
    ELSE IF row.path \in reference_paths THEN Min(row.score + 150, 1000)
    ELSE row.score

\* apply_lsp_boosts after a successful analysis.
ApplyAnalysis(q, symbols, reference_paths) ==
    IF symbols = <<>> THEN [q EXCEPT !.pc = "sort"]
    ELSE LET symbol_paths == {symbols[i].path : i \in 1..Len(symbols)}
             boosted == [id \in DOMAIN q.scored |->
                            [q.scored[id] EXCEPT
                                !.score = PathBoost(q.scored[id], symbol_paths,
                                                    reference_paths)]]
             missing == {p \in symbol_paths \cup reference_paths :
                           \A id \in DOMAIN boosted : boosted[id].path # p}
             fetched == UNION {FetchTopChunkForPath(p) : p \in missing}
             tests == SeqToSet(RelatedTestChunks(SymbolQueryTerms(symbols),
                                                 Max(q.limit, 1) * 4))
             extra == fetched \cup {r \in tests : \A f \in fetched : f.chunk_id # r.chunk_id}
             ids == DOMAIN boosted \cup {r.chunk_id : r \in extra}
         IN  [q EXCEPT !.pc = "sort",
                       !.scored = [id \in ids |->
                                     IF id \in DOMAIN boosted THEN boosted[id]
                                     ELSE CHOOSE r \in extra : r.chunk_id = id],
                       !.related_test_paths = {r.path : r \in tests}]

\* An Err of the analysis that `?` hands on to run.
PropagateAnalysisError(q) == [q EXCEPT !.pc = "failed"]

\* Err(err) => { eprintln!("warning: ..."); return Ok(LspBoostOutcome::default()) }
WarnAnalysisError(q) == [q EXCEPT !.pc = "sort", !.warnings = @ + 1]

\* Limits, backends and surroundings of a query.
QueryLimits == {0, 1, 2}

LspBackends == {"off", "auto", "rust-analyzer"}

InitQuery ==
    /\ IndexOff /\ BudgetOff /\ ExportOff
    /\ RankOff /\ SortOff /\ CliOff /\ LateOff
    /\ lsp = LspIdle
    /\ \E task \in Tasks, limit \in QueryLimits, backend \in LspBackends :
       \E ranks \in [{c.id : c \in QueryChunks} -> Bm25Ranks] :
       \E root_is_dir \in BOOLEAN, available \in BOOLEAN :
          /\ \A c \in QueryChunks :
                c \notin FtsRows(QueryTokenize(task), ranks, 5) => ranks[c.id] = 0
          /\ qry = [pc |-> "start", task |-> task, limit |-> limit,
                    lsp_backend |-> backend, ranks |-> ranks,
                    root_is_dir |-> root_is_dir, available |-> available,
                    scored |-> <<>>, related_test_paths |-> {}, warnings |-> 0,
                    rows |-> <<>>]

\* run, up to the symbol hits.
QueryStart ==
    /\ qry.pc = "start"
    /\ LET tokens == QueryTokenize(qry.task)
       IN  qry' = IF tokens = <<>> THEN [qry EXCEPT !.pc = "failed"]
                  ELSE [qry EXCEPT
                          !.pc = IF qry.lsp_backend = "off" THEN "sort" ELSE "boosts",
                          !.scored = LexicalScored(tokens, qry.ranks, qry.limit)]
    /\ UNCHANGED <<lsp, notQuery>>

\* apply_lsp_boosts, up to the call of analyze_workspace_symbols; every file
\* of the index is a .rs file.
QueryLspGate ==
    /\ qry.pc = "boosts"
    /\ LET has_rust == Cardinality({c.path : c \in QueryChunks}) > 0
           use_ra == IF qry.lsp_backend = "rust-analyzer" THEN TRUE ELSE qry.available
       IN  IF qry.root_is_dir /\ has_rust /\ use_ra
           THEN /\ qry' = [qry EXCEPT !.pc = "lsp"]
                /\ lsp' = [lsp EXCEPT !.pc = "is_available"]
           ELSE /\ qry' = [qry EXCEPT !.pc = "sort"]
                /\ lsp' = lsp
    /\ UNCHANGED notQuery

\* apply_lsp_boosts, from the result of analyze_workspace_symbols on.
QueryBoost ==
    /\ qry.pc = "lsp" /\ lsp.pc = "returned"
    /\ qry' = IF lsp.result = "err" THEN WarnAnalysisError(qry)
              ELSE ApplyAnalysis(qry, lsp.symbols, lsp.reference_paths)
    /\ UNCHANGED <<lsp, notQuery>>

\* run, from the sort on.
QueryOutput ==
    /\ qry.pc = "sort"
    /\ qry' = [qry EXCEPT !.pc = "done", !.rows = OutputRows(qry.scored, qry.limit)]
    /\ UNCHANGED <<lsp, notQuery>>

NextQuery ==
    \/ QueryStart
    \/ QueryLspGate
    \/ \E ok \in BOOLEAN : LspIsAvailable(ok)
    \/ \E ok \in BOOLEAN : LspSpawn(ok)
    \/ \E ok \in BOOLEAN : LspFileUri(ok)
    \/ ChildExits
    \/ \E reply \in Replies : LspInitialize(reply)
    \/ \E ok \in BOOLEAN : LspInitialized(ok)
    \/ \E reply \in Replies, answer \in SymbolAnswers : LspWorkspaceSymbol(reply, answer)
    \/ \E reply \in Replies, answer \in ReferenceAnswers : LspReferences(reply, answer)
    \/ LspShutdown
    \/ QueryBoost
    \/ QueryOutput

SpecQuery == InitQuery /\ [][NextQuery]_vars

\* ------------------------------------------------ the source of a command

\* What the start of `export` and `index` leaves alone.
notCli == <<commandVars, rk, ss, lsp, qry, dx, rq>>

\* An absent option.
None == "none"

\* Both sources are given on the command line; never.
NoSourceConflict(args) == FALSE

\* args.path.is_some() && args.repo.is_some()
SourceConflict(args) == args.path # None /\ args.repo # None

\* merge_cli_with_config, for the fields path and repo_url.
MergeCliWithConfig(base_config, args) ==
    LET with_path == IF args.path # None
                     THEN [base_config EXCEPT !.path = args.path, !.repo_url = None]
                     ELSE base_config
    IN  IF args.repo # None
        THEN [with_path EXCEPT !.repo_url = args.repo, !.path = None]
        ELSE with_path

\* merged.path.is_none() && merged.repo_url.is_none()
SourceMissing(merged) == merged.path = None /\ merged.repo_url = None

InitCli ==
    /\ IndexOff /\ BudgetOff /\ ExportOff
    /\ RankOff /\ SortOff /\ LspOff /\ QueryOff /\ LateOff
    /\ \E command \in {"export", "index"} :
       \E path \in {None, "."}, repo_url \in {None, "https://host/r.git"} :
       \E file_path \in {None, "sub"}, file_repo \in {None, "https://host/f.git"} :
       \E mode_ok \in BOOLEAN, redaction_ok \in BOOLEAN :
       \E always_fit \in BOOLEAN, allow_over_budget \in BOOLEAN, dir \in BOOLEAN :
          /\ command = "index" =>
                mode_ok /\ redaction_ok /\ always_fit /\ ~allow_over_budget /\ ~dir
          /\ cli = [pc |-> "start", command |-> command,
                    args |-> [path |-> path, repo |-> repo_url, mode_ok |-> mode_ok,
                              redaction_ok |-> redaction_ok,
                              allow_over_budget |-> allow_over_budget],
                    file |-> [path |-> file_path, repo_url |-> file_repo],
                    merged |-> [path |-> None, repo_url |-> None],
                    always_fit |-> always_fit,
                    config_loaded |-> FALSE, fetched |-> FALSE, scanned |-> FALSE,
                    written |-> FALSE, error |-> None,
                    out_before |-> [dir |-> dir, files |-> {}],
                    out |-> [dir |-> dir, files |-> {}]]

CliFail(c, error) == [c EXCEPT !.pc = "failed", !.error = error]

\* run, its first statement.
CliCheckConflict ==
    /\ cli.pc = "start"
    /\ cli' = IF SourceConflict(cli.args) THEN CliFail(cli, "both")
              ELSE [cli EXCEPT !.pc = "load_config"]
    /\ UNCHANGED notCli

\* load_config(&config_anchor, args.config)?
CliLoadConfig(ok) ==
    /\ cli.pc = "load_config"
    /\ cli' = IF ok THEN [cli EXCEPT !.pc = "merge", !.config_loaded = TRUE]
              ELSE CliFail(cli, "config")
    /\ UNCHANGED notCli

\* parse_mode(..)? and parse_redaction_mode(..)? (export),
\* merge_cli_with_config and the test of the source.
CliMerge ==
    /\ cli.pc = "merge"
    /\ LET merged == MergeCliWithConfig(cli.file, cli.args)
       IN  cli' = IF ~cli.args.mode_ok THEN CliFail(cli, "mode")
                  ELSE IF ~cli.args.redaction_ok THEN CliFail(cli, "redaction")
                  ELSE IF SourceMissing(merged)
                  THEN CliFail([cli EXCEPT !.merged = merged], "neither")
                  ELSE [cli EXCEPT !.pc = "fetch", !.merged = merged]
    /\ UNCHANGED notCli

\* fetch_repository(..)?
CliFetch(ok) ==
    /\ cli.pc = "fetch"
    /\ cli' = IF ok THEN [cli EXCEPT !.pc = "scan", !.fetched = TRUE]
              ELSE CliFail([cli EXCEPT !.fetched = TRUE], "fetch")
    /\ UNCHANGED notCli

\* scanner.scan()?
CliScan(ok) ==
    /\ cli.pc = "scan"
    /\ cli' = IF ok THEN [cli EXCEPT !.pc = "write", !.scanned = TRUE]
              ELSE CliFail([cli EXCEPT !.scanned = TRUE], "scan")
    /\ UNCHANGED notCli

\* The rest of `index`, which writes the index.
CliWrite ==
    /\ cli.pc = "write"
    /\ cli.command = "index"
    /\ cli' = [cli EXCEPT !.pc = "done", !.written = TRUE]
    /\ UNCHANGED notCli

\* A check that never fails.
CliAlwaysOverflowNever(c) == FALSE

\* always_tokens > max_tokens && !merged.allow_over_budget, after the loop
\* over the always-include files.
CliAlwaysOverflow(c) == ~c.always_fit /\ ~c.args.allow_over_budget

\* export from the byte budget to the end of the stitching: the two file
\* loops with the bail between them, the reranks; nothing is written.
CliSelect ==
    /\ cli.pc = "write"
    /\ cli.command = "export"
    /\ cli' = IF CliAlwaysOverflow(cli) THEN CliFail(cli, "always_overflow")
              ELSE [cli EXCEPT !.pc = "create_dir"]
    /\ UNCHANGED notCli

\* fs::create_dir_all(&output_dir)?
CliCreateDir(ok) ==
    /\ cli.pc = "create_dir"
    /\ cli' = IF ok THEN [cli EXCEPT !.pc = "outputs", !.out.dir = TRUE]
              ELSE CliFail(cli, "create_dir")
    /\ UNCHANGED notCli

\* The writes of export: the graph database, the context pack, the JSONL
\* file, the report, in this order; upto is the number of writes that
\* succeed (a failed graph database is a warning, any other failure ends
\* the run).
OutputFiles == <<"symbol_graph.db", "context_pack.md", "chunks.jsonl", "report.json">>

CliWriteOutputs(upto) ==
    /\ cli.pc = "outputs"
    /\ LET files == {OutputFiles[i] : i \in 1..upto}
       IN  cli' = IF upto = Len(OutputFiles)
                  THEN [cli EXCEPT !.pc = "done", !.written = TRUE, !.out.files = files]
                  ELSE CliFail([cli EXCEPT !.written = (upto > 0), !.out.files = files],
                               "write")
    /\ UNCHANGED notCli

NextCli ==
    \/ CliCheckConflict
    \/ \E ok \in BOOLEAN : CliLoadConfig(ok)
    \/ CliMerge
    \/ \E ok \in BOOLEAN : CliFetch(ok)
    \/ \E ok \in BOOLEAN : CliScan(ok)
    \/ CliWrite
    \/ CliSelect
    \/ \E ok \in BOOLEAN : CliCreateDir(ok)
    \/ \E upto \in 0..Len(OutputFiles) : CliWriteOutputs(upto)

SpecCli == InitCli /\ [][NextCli]_vars

\* C17: with both --path and --repo the command fails at once: no
\* configuration is loaded, nothing is fetched, scanned or written; with
\* neither, on the command line or in the configuration, it never fetches,
\* scans or writes, and ends in failure.
C17_SourceConflictFailsFast ==
    /\ (cli.args.path # None /\ cli.args.repo # None) =>
          /\ cli.pc \in {"start", "failed"}
          /\ cli.pc = "failed" => cli.error = "both"
          /\ ~cli.config_loaded /\ ~cli.fetched /\ ~cli.scanned /\ ~cli.written
    /\ (cli.args.path = None /\ cli.args.repo = None
        /\ cli.file.path = None /\ cli.file.repo_url = None) =>
          /\ cli.pc \in {"start", "load_config", "merge", "failed"}
          /\ ~cli.fetched /\ ~cli.scanned /\ ~cli.written

\* An index command given both flags has failed over them, although its
\* configuration file names a source too.
C17_Witness ==
    /\ cli.command = "index" /\ cli.args.path # None /\ cli.args.repo # None
    /\ cli.file.path # None
    /\ cli.pc = "failed" /\ cli.error = "both" /\ ~cli.config_loaded

\* ------------------------------------------ properties of `query` and the LSP

\* C13: once analyze_workspace_symbols has spawned the child, the child has
\* been killed and waited for when the function has returned, with Ok or
\* with any error.
C13_ChildReapedOnReturn ==
    (lsp.pc = "returned" /\ lsp.spawned) => (lsp.killed /\ lsp.child = "reaped")

\* The function has returned an error of a references request after spawning
\* the child, which is killed and waited for.
C13_Witness ==
    /\ lsp.pc = "returned" /\ lsp.spawned /\ lsp.result = "err"
    /\ lsp.failed_at = "textDocument/references" /\ lsp.k = 2
    /\ lsp.killed /\ lsp.child = "reaped"

\* The analysis has returned an error to apply_lsp_boosts.
AnalysisFailed == lsp.pc = "returned" /\ lsp.result = "err"

\* C12: when analyze_workspace_symbols fails, apply_lsp_boosts emits one
\* warning and leaves the scores alone, and the query still outputs the rows
\* of the FTS rows and symbol hits, sorted and truncated.
C12_LspFailureNonFatal ==
    [][/\ (AnalysisFailed /\ qry.pc = "lsp") =>
             /\ qry'.pc = "sort" /\ qry'.scored = qry.scored
             /\ qry'.warnings = qry.warnings + 1
       /\ (AnalysisFailed /\ qry.pc = "sort") =>
             /\ qry'.pc = "done" /\ qry'.warnings = 1
             /\ qry'.rows = OutputRows(LexicalScored(QueryTokenize(qry.task), qry.ranks,
                                                     qry.limit), qry.limit)]_<<qry>>

\* A query has output two symbol-boosted and fetched rows, with a warning,
\* after the child closed its output during workspace/symbol.
C12_Witness ==
    /\ AnalysisFailed /\ lsp.failed_at = "workspace/symbol" /\ lsp.spawned
    /\ qry.pc = "done" /\ qry.warnings = 1 /\ Len(qry.rows) = 2
    /\ qry.rows[1].score = 750 /\ qry.rows[2].score = 500

\* C19: the query outputs at most max(limit, 1) rows, ordered by score
\* descending, then path ascending, then start line ascending, with every
\* score in [0, 1].
C19_QueryOrderAndSize ==
    qry.pc = "done" =>
       /\ Len(qry.rows) <= Max(qry.limit, 1)
       /\ \A i \in 1..Len(qry.rows) : qry.rows[i].score >= 0 /\ qry.rows[i].score <= 1000
       /\ \A i \in 1..Len(qry.rows) : \A j \in (i + 1)..Len(qry.rows) :
             LET a == qry.rows[i]
                 b == qry.rows[j]
             IN  \/ a.score > b.score
                 \/ a.score = b.score /\ QueryPathOrd(a.path) < QueryPathOrd(b.path)
                 \/ a.score = b.score /\ a.path = b.path /\ a.start_line <= b.start_line

\* A query with limit 2 has output two of its three scored rows after the
\* LSP boosts: a symbol-boosted FTS row at the cap, then the top chunk fetched
\* for a symbol path, ahead of the related test chunk that is cut off.
C19_Witness ==
    /\ qry.pc = "done" /\ qry.limit = 2 /\ Len(qry.rows) = 2
    /\ Cardinality(DOMAIN qry.scored) = 3
    /\ lsp.pc = "returned" /\ lsp.result = "ok" /\ Len(lsp.symbols) = 2
    /\ qry.rows[1].score = 1000 /\ qry.rows[1].chunk_id = "a2"
    /\ qry.rows[2].score = 680 /\ qry.rows[2].chunk_id = "m1"
    /\ qry.scored["t1"].score = 580

\* ------------------------------------------------ export: the two file loops

LoopPaths == {"README.md", "src/main.py", "src/util.py"}

\* Trees of three files, at most one of them unreadable.
LoopTrees ==
    {[p \in LoopPaths |-> [present |-> TRUE, content |-> c[p], readable |-> p \notin U]] :
        c \in [LoopPaths -> Contents],
        U \in {{}, {"README.md"}, {"src/main.py"}, {"src/util.py"}}}

\* Exports with and without a task and a token budget.
LoopConfigs ==
    [max_total_bytes : {1000},
     max_tokens : {-1, 2, 5},
     allow_over_budget : BOOLEAN,
     always_include : {{}, {"README.md"}},
     task : {"", "f"},
     redact_secrets : {FALSE},
     no_timestamp : {TRUE},
     index_opts : {<<>>},
     stitch_percent : {50},
     stitch_top_n : {1},
     chunk_tokens : {4},
     chunk_overlap : {1},
     min_chunk_tokens : {0},
     semantic_rerank : {FALSE},
     rerank_top_k : {2},
     mode : {"both"}]

InitLoops == InitExportOver(LoopTrees, LoopConfigs)

SpecLoops == InitLoops /\ [][NextExport]_vars

\* The chunks process_export_file gives for a path of the export.
FileChunks(p) ==
    ProcessExportFile(p, xcfg.tree[p], xcfg.redact_secrets, xcfg.chunk_tokens,
                      xcfg.chunk_overlap).chunks

\* The normal files that could be read, in ranked order.
ReadNormal == SelectSeq(xst.normal_paths, LAMBDA p : xcfg.tree[p].readable)

\* The entries of dropped_files with reason token_budget, in order.
TokenDrops == SelectSeq(xst.dropped_files, LAMBDA e : e.reason = "token_budget")

\* The tokens of the files kept among the first n readable normal files.
KeptTokens(n) ==
    SumSeq([i \in 1..n |->
               IF ReadNormal[i] \in TokenDropped(xst) THEN 0
               ELSE ChunkTokens(FileChunks(ReadNormal[i]))])

\* C21: once the normal loop has run, a readable normal file is dropped
\* exactly when its tokens on top of the tokens of the files kept before it
\* exceed max(0, max_tokens - always_tokens); the drops are recorded in
\* ranked order with path, priority, tokens and chunk count; a dropped file
\* adds nothing to normal_tokens and has no chunk in the pack, and a kept
\* file has its chunks in it.
C21_PerFileTokenDrop ==
    (xpc \in {"write", "done"}) =>
       LET budget == IF xcfg.max_tokens < 0 THEN -1
                     ELSE Max(0, xcfg.max_tokens - xst.always_tokens)
           dropped == SelectSeq(ReadNormal, LAMBDA p : p \in TokenDropped(xst))
       IN  /\ \A i \in 1..Len(ReadNormal) :
                 ReadNormal[i] \in TokenDropped(xst) <=>
                    /\ budget >= 0
                    /\ KeptTokens(i - 1) + ChunkTokens(FileChunks(ReadNormal[i])) > budget
           /\ Len(TokenDrops) = Len(dropped)
           /\ \A i \in 1..Len(dropped) :
                 TokenDrops[i] = [path |-> dropped[i], reason |-> "token_budget",
                                  priority |-> RankFile(dropped[i]),
                                  tokens |-> ChunkTokens(FileChunks(dropped[i])),
                                  chunks |-> Len(FileChunks(dropped[i]))]
           /\ xst.normal_tokens = KeptTokens(Len(ReadNormal))
           /\ \A i \in 1..Len(ReadNormal) :
                 LET p == ReadNormal[i]
                 IN  IF p \in TokenDropped(xst)
                     THEN \A k \in 1..Len(xst.chunks) : xst.chunks[k].path # p
                     ELSE \A k \in 1..Len(FileChunks(p)) :
                             \E m \in 1..Len(xst.chunks) : xst.chunks[m].id = FileChunks(p)[k].id

\* An export has dropped its second normal file for the token budget and
\* kept the third, which still fitted.
C21_Witness ==
    /\ xpc = "done" /\ Len(ReadNormal) = 3 /\ xcfg.max_tokens = 5
    /\ ReadNormal[1] \notin TokenDropped(xst)
    /\ ReadNormal[2] \in TokenDropped(xst)
    /\ ReadNormal[3] \notin TokenDropped(xst)
    /\ xst.normal_tokens = 5

\* C24 (export): when a normal file cannot be read, the normal loop leaves a
\* count of it in the statistics the export reports: the statistics after
\* the loop differ from those of the same loop over the readable files alone.
C24_UnreadableCounted ==
    [][(xpc = "normal" /\ xpc' # "normal" /\ ReadNormal # xst.normal_paths) =>
          LET acc == NormalLoop(ReadNormal, xcfg.tree, xcfg,
                                RemainingBudget(xst.always_tokens, xcfg.max_tokens), xst)
              readable_only == [acc EXCEPT !.chunks =
                                   CoalesceSmallChunks(@, xcfg.min_chunk_tokens,
                                                       xcfg.chunk_tokens)]
          IN  StatsOf(xst') # StatsOf(readable_only)]_vars

\* ------------------------------------- apply_byte_budget: the partition

\* C26: apply_byte_budget accepts a prefix of the ranked list, in order; the
\* dropped entries are the rest of the list, in order, so that accepted and
\* dropped files partition the input; total_bytes_included is the sum of the
\* accepted sizes; the accepted total without the last accepted file is below
\* the limit; with limit 0 nothing is accepted.
C26_ByteBudgetPartition ==
    bb.called =>
        LET n == Len(bb.selected)
        IN  /\ n <= Len(bb.ranked)
            /\ bb.selected = SubSeq(bb.ranked, 1, n)
            /\ [d \in 1..Len(bb.dropped) |-> bb.dropped[d].path]
                  = SubSeq(bb.ranked, n + 1, Len(bb.ranked))
            /\ bb.total_bytes_included = SumSeq([j \in 1..n |-> bb.sizes[bb.selected[j]]])
            /\ n > 0 => bb.total_bytes_included - bb.sizes[bb.selected[n]] < bb.limit
            /\ bb.limit = 0 => n = 0

\* A call that accepted two files, the second one carrying the total past the
\* limit, and dropped the third although it is empty.
C26_Witness ==
    /\ bb.called
    /\ Len(bb.selected) = 2
    /\ bb.total_bytes_included > bb.limit
    /\ Len(bb.dropped) = 1
    /\ bb.sizes[bb.dropped[1].path] = 0

\* ------------------------------------------- index: removal and accounting

\* The paths the scanner returns in the current state of the repository.
Scanned == {p \in Paths : repo[p].present}

\* C25: a run removes exactly the indexed paths that are absent from the
\* scan: no path the scanner returned is among the removed ones, and
\* files_removed counts the indexed paths that the scan did not return.
C25_RemovalExact ==
    [][(ipc = "idle" /\ ipc' = "files") =>
          /\ run'.stale_paths \cap Scanned = {}
          /\ run'.stale_paths = (DOMAIN db.files) \ Scanned
          /\ \A p \in Scanned \cap DOMAIN db.files : p \in DOMAIN tx'.files]_vars

\* The search row that belongs to a chunks row.
FtsOfChunk(c) == [chunk_id |-> c.id, path |-> c.file_path, content |-> c.content]

\* chunk_fts has exactly one row per chunks row, with its id, path and
\* content; every symbols row names a stored chunk of a stored file.
FtsConsistent(d) ==
    /\ BagToSet(d.chunk_fts) = {FtsOfChunk(c) : c \in d.chunks}
    /\ \A r \in DOMAIN d.chunk_fts : d.chunk_fts[r] = 1
    /\ \A r \in DOMAIN d.chunk_fts : r.path \in DOMAIN d.files
    /\ \A s \in d.symbols :
          /\ s.file_path \in DOMAIN d.files
          /\ \E c \in d.chunks : c.id = s.chunk_id /\ c.file_path = s.file_path

\* C27: in the committed database, after any sequence of runs, chunk_fts holds
\* exactly one row per chunks row with the same chunk id, path and content,
\* and every symbols row refers to a stored chunk and a stored file; the same
\* holds inside the open transaction, so no search or symbol row outlives the
\* deletion or the rebuild of its file.
C27_FtsSymbolConsistency == FtsConsistent(db) /\ FtsConsistent(tx)

\* A committed later run that rebuilt one file and removed another, with
\* search and symbol rows left in the index.
C27_Witness ==
    /\ ipc = "idle" /\ summary.status = "ok" /\ runs >= 2
    /\ summary.files_reindexed = 1 /\ summary.files_removed = 1
    /\ db.chunk_fts # EmptyBag /\ db.symbols # {}

\* The selected files of the run that could be read, and those that could not.
ReadableSelected == {p \in SeqToSet(run.selected) : repo[p].readable}
UnreadableSelected == SeqToSet(run.selected) \ ReadableSelected

\* C28: on commit, files_reused + files_reindexed is the number of selected
\* files that could be read, files_reused counting those whose stored hash
\* equals the current one and files_reindexed the others; a selected file
\* that is in the index and cannot be read keeps its files, chunks, symbols
\* and chunk_fts rows and is not among the removed paths.
C28_RunAccounting ==
    [][CommitStep =>
          /\ summary'.files_reused + summary'.files_reindexed
                = Cardinality(ReadableSelected)
          /\ summary'.files_reused = Cardinality({p \in ReadableSelected : HashMatches(p)})
          /\ summary'.files_reindexed
                = Cardinality({p \in ReadableSelected : ~HashMatches(p)})
          /\ summary'.unreadable = Cardinality(UnreadableSelected)
          /\ \A p \in UnreadableSelected \cap DOMAIN db.files :
                /\ p \in DOMAIN db'.files /\ db'.files[p] = db.files[p]
                /\ ChunksOf(db', p) = ChunksOf(db, p)
                /\ FtsOf(db', p) = FtsOf(db, p)
                /\ SymbolsOf(db', p) = SymbolsOf(db, p)
                /\ p \notin run.stale_paths]_vars

\* A finished run over two selected files: one is in the index with chunks
\* and cannot be read, the other was rebuilt.
C28_Witness ==
    /\ ipc = "files" /\ run.k > Len(run.prepared)
    /\ Len(run.selected) = 2 /\ run.unreadable = 1
    /\ run.files_reindexed = 1 /\ run.files_reused = 0
    /\ \E p \in UnreadableSelected : p \in DOMAIN db.files /\ ChunksOf(db, p) # {}

\* ------------------------------------- dependency_expansion_scores alone

notExpand == <<commandVars, rk, ss, lsp, qry, cli, rq>>

\* The files of the chunk list, in path order.
ExpandFiles == <<"a.py", "b.py", "c.py", "d.py", "e.py", "f.py">>

ExpandOrd(p) == CHOOSE i \in 1..Len(ExpandFiles) : ExpandFiles[i] = p

\* The edges a dependency graph is drawn from: a chain a-b-c-d-e-f with the
\* chord a-c.
EdgePool == {{"a.py", "b.py"}, {"b.py", "c.py"}, {"c.py", "d.py"}, {"d.py", "e.py"},
             {"e.py", "f.py"}, {"a.py", "c.py"}}

\* Normalized lexical scores of a file, in thousandths.
LexicalScores == {0, 400, 1000}

\* The seeds taken per call: seeds.into_iter().take(5).
MaxSeeds == 5

\* graph.get(path): dependency_graph inserts every edge in both directions.
GraphNeighbours(graph, p) == {q \in SeqToSet(ExpandFiles) : {p, q} \in graph}

\* The seed order: score descending, then path.
SeedBefore(lexical_by_file, p, q) ==
    \/ lexical_by_file[p] > lexical_by_file[q]
    \/ lexical_by_file[p] = lexical_by_file[q] /\ ExpandOrd(p) < ExpandOrd(q)

\* Every positive file taken as a seed.
SeedsAll(lexical_by_file) ==
    {p \in DOMAIN lexical_by_file : lexical_by_file[p] > 0}

\* The files with a positive score, sorted, cut to the first five.
Seeds(lexical_by_file) ==
    LET positive == {p \in DOMAIN lexical_by_file : lexical_by_file[p] > 0}
    IN  {p \in positive :
            Cardinality({q \in positive : SeedBefore(lexical_by_file, q, p)}) < MaxSeeds}

\* What the loop body enters for one seed, as <<file, value>> pairs with the
\* value in ten-thousandths: the seed itself, its neighbours at score * 0.6,
\* the neighbours of its neighbours at score * 0.3.
SeedEntries(graph, seed, score) ==
    {<<seed, score * 10>>}
    \cup {<<n, Min(score * 6, 10000)>> : n \in GraphNeighbours(graph, seed)}
    \cup UNION {{<<n2, Min(score * 3, 10000)>> : n2 \in GraphNeighbours(graph, n)} :
                   n \in GraphNeighbours(graph, seed)}

\* dependency_expansion_scores: every entry is kept at the maximum of the
\* values entered for its file.
DependencyExpansionScores(graph, lexical_by_file) ==
    LET entries == UNION {SeedEntries(graph, s, lexical_by_file[s]) :
                             s \in Seeds(lexical_by_file)}
    IN  [p \in {e[1] : e \in entries} |-> MaxOf({e[2] : e \in {x \in entries : x[1] = p}})]

\* The second loop of rerank_chunks_by_task on one chunk priority (in
\* thousandths): priority * 0.8 + expanded * 0.2, rounded to three decimals,
\* for a file with an entry.
ExpandPriority(expansion, path, priority) ==
    IF path \in DOMAIN expansion
    THEN RoundDiv(80 * priority + 2 * expansion[path], 100)
    ELSE priority

InitExpand ==
    /\ IndexOff /\ BudgetOff /\ ExportOff
    /\ RankOff /\ SortOff /\ LspOff /\ QueryOff /\ CliOff /\ RequestOff
    /\ \E graph \in SUBSET EdgePool :
       \E lexical \in [SeqToSet(ExpandFiles) -> LexicalScores] :
          /\ (\A p \in DOMAIN lexical : lexical[p] = 0) \/ (\E p \in DOMAIN lexical : lexical[p] = 1000)
          /\ dx = [called |-> FALSE, graph |-> graph, lexical_by_file |-> lexical,
                   priority |-> [p \in SeqToSet(ExpandFiles) |-> 300 + 100 * ExpandOrd(p)],
                   expansion |-> <<>>]

\* The expansion step of rerank_chunks_by_task.
ExpandApply ==
    /\ ~dx.called
    /\ \E expansion \in {DependencyExpansionScores(dx.graph, dx.lexical_by_file)} :
          dx' = [dx EXCEPT !.called = TRUE, !.expansion = expansion,
                           !.priority = [p \in DOMAIN @ |-> ExpandPriority(expansion, p, @[p])]]
    /\ UNCHANGED notExpand

NextExpand == ExpandApply

SpecExpand == InitExpand /\ [][NextExpand]_vars

\* The files at exactly the given distance from a file in the graph.
AtDistance(graph, s, d) ==
    LET one == GraphNeighbours(graph, s) \ {s}
        two == (UNION {GraphNeighbours(graph, n) : n \in one}) \ (one \cup {s})
    IN  CASE d = 0 -> {s} [] d = 1 -> one [] OTHER -> two

\* The five (or fewer) files with the highest positive score.
TopSeeds ==
    LET positive == {p \in SeqToSet(ExpandFiles) : dx.lexical_by_file[p] > 0}
    IN  {p \in positive :
            Cardinality({q \in positive : SeedBefore(dx.lexical_by_file, q, p)}) < 5}

\* The values a file is due: from each seed within two hops, the seed's score
\* times 1, 0.6 or 0.3 (in ten-thousandths).
Due(p) ==
    UNION {{dx.lexical_by_file[s] * (<<10, 6, 3>>[d + 1]) :
               d \in {e \in 0..2 : p \in AtDistance(dx.graph, s, e)}} : s \in TopSeeds}

\* C22: after the expansion, a file within two hops of one of the (at most
\* five) top seeds has the maximum of the values due to it: the seed's score
\* at distance 0, 0.6 of it at distance 1, 0.3 of it at distance 2; a file
\* farther than two hops from every seed has no value, and the priority of
\* its chunks is what it was before the step.
C22_ExpansionReach ==
    dx.called =>
        /\ Cardinality(TopSeeds) <= 5
        /\ \A p \in SeqToSet(ExpandFiles) :
              IF Due(p) = {}
              THEN /\ p \notin DOMAIN dx.expansion
                   /\ dx.priority[p] = 300 + 100 * ExpandOrd(p)
              ELSE /\ p \in DOMAIN dx.expansion
                   /\ dx.expansion[p] = MaxOf(Due(p))

\* A call with a.py as the only seed on the chain a-b-c-d: b.py has 0.6,
\* c.py 0.3 and d.py, three hops away, nothing.
C22_Witness ==
    /\ dx.called
    /\ dx.graph = {{"a.py", "b.py"}, {"b.py", "c.py"}, {"c.py", "d.py"}}
    /\ dx.expansion = ("a.py" :> 10000 @@ "b.py" :> 6000 @@ "c.py" :> 3000)
    /\ dx.priority["d.py"] = 700

\* ------------------------------------------- LspConnection, message by message

notRequest == <<commandVars, rk, ss, lsp, qry, cli, dx>>

\* Requests issued on one connection.
MaxRequests == 2

\* Messages the server has written that the client has not read yet.
MaxPipe == 2

NoId == 0

\* What the server may write to its standard output: responses with a result
\* or an error for an id, notifications (no id), requests of its own (an id
\* of the server's numbering and a method), and bytes that read_message
\* cannot parse.
ServerMessages ==
    [kind : {"result"}, id : 1..MaxRequests, value : {"a", "b"}]
    \cup [kind : {"error", "request"}, id : 1..MaxRequests, value : {"null"}]
    \cup [kind : {"notification", "garbled"}, id : {NoId}, value : {"null"}]

NoReturn == [kind |-> "none", value |-> "null"]

\* LspConnection::spawn: next_id is 1, nothing has been read.
InitRequest ==
    /\ IndexOff /\ BudgetOff /\ ExportOff
    /\ RankOff /\ SortOff /\ LspOff /\ QueryOff /\ CliOff /\ ExpandOff
    /\ rq = [pc |-> "idle", next_id |-> 1, id |-> NoId, pipe |-> <<>>,
             open |-> TRUE, ret |-> NoReturn]

\* request up to its loop: take the id, advance next_id, send_message.  A
\* failed write leaves request with the error.
Request(sent) ==
    /\ rq.pc = "idle"
    /\ rq.next_id <= MaxRequests
    /\ rq' = [rq EXCEPT !.id = rq.next_id, !.next_id = @ + 1,
                        !.pc = IF sent THEN "waiting" ELSE "failed",
                        !.ret = IF sent THEN NoReturn
                                ELSE [kind |-> "err", value |-> "write"]]
    /\ UNCHANGED notRequest

\* What one iteration of the loop of request does with the message that
\* read_message returned.
Incoming(id, m) ==
    IF m.kind = "garbled" THEN [pc |-> "failed", ret |-> [kind |-> "err", value |-> "parse"]]
    ELSE IF m.id # id THEN [pc |-> "waiting", ret |-> NoReturn]
    ELSE IF m.kind = "error" THEN [pc |-> "failed", ret |-> [kind |-> "err", value |-> "lsp"]]
    ELSE [pc |-> "idle",
          ret |-> [kind |-> "ok", value |-> IF m.kind = "result" THEN m.value ELSE "null"]]

\* One iteration of the loop of request: read_message returns the next
\* message of the pipe.
ReadMessage ==
    /\ rq.pc = "waiting"
    /\ rq.pipe # <<>>
    /\ LET r == Incoming(rq.id, Head(rq.pipe))
       IN  rq' = [rq EXCEPT !.pipe = Tail(@), !.pc = r.pc, !.ret = r.ret]
    /\ UNCHANGED notRequest

\* read_line returns 0: "LSP process ended unexpectedly".
ReadEof ==
    /\ rq.pc = "waiting"
    /\ rq.pipe = <<>> /\ ~rq.open
    /\ rq' = [rq EXCEPT !.pc = "failed", !.ret = [kind |-> "err", value |-> "ended"]]
    /\ UNCHANGED notRequest

\* The server writes a message.
ServerSend(m) ==
    /\ rq.open
    /\ rq.pc # "failed"
    /\ Len(rq.pipe) < MaxPipe
    /\ rq' = [rq EXCEPT !.pipe = Append(@, m)]
    /\ UNCHANGED notRequest

\* The server closes its standard output (it exits).
ServerExit ==
    /\ rq.open
    /\ rq.pc # "failed"
    /\ rq' = [rq EXCEPT !.open = FALSE]
    /\ UNCHANGED notRequest

NextRequest ==
    \/ \E sent \in BOOLEAN : Request(sent)
    \/ ReadMessage
    \/ ReadEof
    \/ \E m \in ServerMessages : ServerSend(m)
    \/ ServerExit

SpecRequest == InitRequest /\ [][NextRequest]_vars

\* The client runs: a read that can return does return.  Nothing obliges the
\* server to write or to exit.
SpecRequestLive ==
    InitRequest /\ [][NextRequest]_vars /\ WF_vars(ReadMessage) /\ WF_vars(ReadEof)

\* C29: a request takes the id next_id, which then grows by one, so the ids
\* are 1, 2, ...; a request returns a value only on reading the server's
\* response to its own id, and the value is that response's result; a
\* response for its id that carries an error makes it return an error; a
\* notification, a response for another id or a request of the server is
\* read and dropped, the request staying in its loop.
C29_RequestCorrelation ==
    [][/\ (rq'.id # rq.id) => (rq'.id = rq.id + 1 /\ rq'.id = rq.next_id
                                 /\ rq'.next_id = rq.next_id + 1)
       /\ (rq.pc = "waiting" /\ rq'.pc # "waiting" /\ rq'.ret.kind = "ok") =>
             /\ rq.pipe # <<>>
             /\ Head(rq.pipe).kind = "result"
             /\ Head(rq.pipe).id = rq.id
             /\ rq'.ret.value = Head(rq.pipe).value
       /\ (rq.pc = "waiting" /\ rq.pipe # <<>> /\ rq'.pipe = Tail(rq.pipe)) =>
             LET m == Head(rq.pipe)
             IN  /\ (m.kind = "error" /\ m.id = rq.id) => rq'.ret.kind = "err"
                 /\ (m.kind \in {"notification", "request"} \/ m.id # rq.id) =>
                       (rq'.pc = "waiting" /\ rq'.ret = NoReturn)]_vars

\* C23: a request that has been sent eventually returns, with a result or an
\* error.
C23_RequestTerminates == (rq.pc = "waiting") ~> (rq.pc # "waiting")

\* ------------------------------------------- export: errors before output

\* The errors of export that the run cannot recover from by configuration.
FatalErrors == {"both", "mode", "redaction", "always_overflow"}

\* C30: an export that fails over the --path/--repo conflict, an invalid mode
\* or redaction mode, or always-include files over the token budget has not
\* created the output directory and has written no file: the output location
\* is as it was; and an export whose always-include files exceed the budget
\* without allow_over_budget never gets to create the directory.
C30_NoOutputOnFatalError ==
    cli.command = "export" =>
        /\ (cli.pc = "failed" /\ cli.error \in FatalErrors) =>
              (cli.out = cli.out_before /\ ~cli.written)
        /\ (SourceConflict(cli.args) \/ ~cli.args.mode_ok \/ ~cli.args.redaction_ok
            \/ (~cli.always_fit /\ ~cli.args.allow_over_budget)) =>
              /\ cli.out = cli.out_before /\ ~cli.written
              /\ cli.pc \notin {"create_dir", "outputs", "done"}

\* An export that fetched and scanned the repository has failed on the
\* always-include check, with no output directory.
C30_Witness ==
    /\ cli.command = "export"
    /\ cli.pc = "failed" /\ cli.error = "always_overflow"
    /\ cli.fetched /\ cli.scanned
    /\ ~cli.out.dir /\ cli.out.files = {}

====
